---- MODULE Spec2Model ----
(***************************************************************************)
(* Model of the terminal-bench web backend: the run submission handler     *)
(* (main.py), the orchestrator TerminalBenchRunner.run_task_streaming      *)
(* (tb_runs/runner.py), the Redis-backed TaskOutputBuffer and the running- *)
(* task markers (tb_runs/redis.py), the per-user asyncio queues and the    *)
(* GET /stream requests that read them (main.py).                          *)
(*                                                                         *)
(* Text is modelled as a sequence of tokens (strings); "pattern in text"   *)
(* is membership of the pattern among the tokens.  Timestamps are left out *)
(* of the Message records: no modelled branch reads them.  Request names   *)
(* are file names, not task UUIDs, so the metadata lookup of main.py       *)
(* 413-435 is not taken.  Redis commands fail only inside append_output.   *)
(*                                                                         *)
(* The event loop is single-threaded: each action of the loop is the code  *)
(* between two awaits.  The executor threads (build_image, stream_and_wait)*)
(* take their own steps and reach the loop through its FIFO of callbacks.  *)
(* The variable scenario holds the limits of a behaviour; each             *)
(* specification below fixes them in its initial state.                    *)
(***************************************************************************)
EXTENDS Integers, Sequences, FiniteSets, TLC

\* ---- bounds of the model ----
MaxRuns == 2        \* concurrent submissions
MaxLines == 2       \* log lines one container produces
MaxConcurrentLines == 1   \* log lines per container when runs are concurrent
MaxReads == 2       \* buffer reads in one behaviour
MaxFaults == 1      \* Redis commands that fail in one behaviour
MaxViewers == 2     \* /stream requests in one behaviour
MaxRounds == 2      \* turns of the loop of monitor_services in one behaviour
MaxTime == 20       \* units of time one /stream request spends in its live loop

\* ---- inputs ----
Users == {"u1", "u2"}
RequestNames == {"hello", "Downloading.zip"}
ExitCodes == {0, 2}
\* raw log lines of the container, before decode and rstrip
RawLines == { <<"\n">>,
              <<"hello", "\n">>,
              <<"Downloading", " pkg", "\n">>,
              <<"=== RUNNING TASK ===", "\n">>,
              <<"\\xff">> }

\* the raw log lines of the run whose buffer is read
ReadLines == { <<"hello", "\n">>, <<"Downloading", " pkg", "\n">>,
               <<"=== RUNNING TASK ===", "\n">> }

\* the since_seq values of the /stream requests
SinceSeqs == {0, 2}

\* ---- program constants ----
HandlerSeq == 999999        \* "seq" of the handler's completion/error message
QueueMaxSize == 0           \* asyncio.Queue() default: 0 = unbounded
HeartbeatTimeout == 15      \* asyncio.wait_for(q.get(), timeout=15)
RetentionWindow == 86400    \* redis.expire(buffer_key, 86400), in seconds

Whitespace == {" ", "\n", "\t", "\r"}
InvalidUtf8 == "\\xff"
Marker == "=== RUNNING TASK ==="

skip_patterns == {"Downloading", "Extracting", "Installing", "Building wheels",
                  "Collecting", "Using cached", "Running setup.py",
                  "Successfully installed", "Requirement already satisfied",
                  "Step ", " ---> ", "Removing intermediate container",
                  "Successfully built", "Archive:", "inflating:", "creating:",
                  "GET https://", "200 OK", "Sending build context"}

AlwaysBuffered == {"status", "error", "complete"}

\* ---- text helpers ----
Contains(content, pattern) == \E k \in 1..Len(content) : content[k] = pattern

RECURSIVE rstrip(_)
rstrip(s) == IF s # <<>> /\ s[Len(s)] \in Whitespace
             THEN rstrip(SubSeq(s, 1, Len(s) - 1))
             ELSE s

\* name.replace('.zip', '') if name.endswith('.zip') else name
StripZip(name) == IF name = "Downloading.zip" THEN "Downloading" ELSE name

Uuid(n) == "uuid-" \o ToString(n)

Reverse(s) == [k \in 1..Len(s) |-> s[Len(s) + 1 - k]]

\* ---- retention filter ----
\* variant: the noise patterns are applied to every kind of Message
should_buffer_message_skipping_status(msg_type, content) ==
    IF msg_type = "output" \/ msg_type \in AlwaysBuffered
    THEN \A p \in skip_patterns : ~Contains(content, p)
    ELSE FALSE

should_buffer_message(msg_type, content) ==
    IF msg_type \in AlwaysBuffered THEN TRUE
    ELSE IF msg_type = "output"
         THEN \A p \in skip_patterns : ~Contains(content, p)
         ELSE FALSE

\* ---- state ----
VARIABLES
    nextUuid,        \* number of uuid4() values drawn so far
    req,             \* per submission: the handler's locals and its response
    orch,            \* per submission: locals of run_task_streaming
    worker,          \* per submission: locals of the stream_and_wait thread
    ready,           \* the event loop's FIFO of scheduled callbacks
    user_queues,     \* user_id -> contents of that user's asyncio.Queue
    redis_lists,     \* Redis list keys task_output:<task_id>:<run_id>
    redis_meta,      \* Redis string keys task_meta:<task_id>:<run_id>
    redis_running,   \* Redis string keys <user_id>_<task_name>
    redis_ttl,       \* the Redis keys that expire -> seconds left to live
    faults,          \* Redis commands that have failed so far
    docker,          \* images, containers and staging directories that exist
    emitted,         \* history: Messages created by each run's send_message
    handler_emitted, \* history: Messages created by run_task_background
    mark_calls,      \* history: mark_task_complete calls per submission
    last_read,       \* the latest buffer read and what it returned
    published,       \* history: user_id -> Messages put on that user's queue
    viewers,         \* the /stream requests: parameters, position, events yielded
    scenario,        \* the limits of this behaviour, fixed by the initial state
    monitor          \* the alerts.py process: position, alerts.log, environment

vars == <<nextUuid, req, orch, worker, ready, user_queues, redis_lists,
          redis_meta, redis_running, redis_ttl, faults, docker, emitted,
          handler_emitted, mark_calls, last_read, published, viewers,
          scenario, monitor>>

None == "None"
Slots == 1..Len(req)

\* ---- JSON as stored in Redis ----
json_dumps(v) == [json |-> v]
json_loads(j) == j.json

\* ---- Redis commands on the modelled key spaces ----
Outcomes == {"ok", "lpush_fails", "set_fails"}

buffer_key(task_id, run_id) == <<task_id, run_id>>

lrange_all(lists, key) == IF key \in DOMAIN lists THEN lists[key] ELSE <<>>

lpush(lists, key, value) ==
    IF key \in DOMAIN lists
    THEN [lists EXCEPT ![key] = <<value>> \o @]
    ELSE lists @@ (key :> <<value>>)

redis_set(strings, key, value) ==
    IF key \in DOMAIN strings
    THEN [strings EXCEPT ![key] = value]
    ELSE strings @@ (key :> value)

\* the keys of the two key spaces as the expiry table names them
list_key(key) == <<"task_output", key>>
meta_key(key) == <<"task_meta", key>>

\* EXPIRE gives a key that exists a time to live; SET without KEEPTTL
\* discards the one the key had
expire(ttl, key, seconds) ==
    IF key \in DOMAIN ttl THEN [ttl EXCEPT ![key] = seconds]
    ELSE ttl @@ (key :> seconds)
persist(ttl, key) == [k \in DOMAIN ttl \ {key} |-> ttl[k]]

\* Optional values are sequences of length 0 (None) or 1
redis_get(strings, key) == IF key \in DOMAIN strings THEN <<strings[key]>> ELSE <<>>

\* ---- TaskOutputBuffer ----
\* B is the part of the state one loop step threads through its calls:
\* [seq, lists, meta, ttl, queue, faults, emitted, marks, published]
\* variant: message_count is read before the push
append_output_count_before_push(B, task_id, run_id, message, outcome) ==
    LET key == buffer_key(task_id, run_id)
        count == Len(lrange_all(B.lists, key))
        pushed == lpush(B.lists, key, json_dumps(message))
        meta_data == [message_count |-> count, task_id |-> task_id,
                      run_id |-> run_id, status |-> message.type]
    IN  IF outcome = "lpush_fails" THEN [B EXCEPT !.faults = @ + 1]
        ELSE IF outcome = "set_fails"
             THEN [B EXCEPT !.lists = pushed, !.faults = @ + 1]
             ELSE [B EXCEPT !.lists = pushed,
                            !.meta = redis_set(@, key, json_dumps(meta_data)),
                            !.ttl = expire(expire(persist(@, meta_key(key)),
                                                  list_key(key), RetentionWindow),
                                           meta_key(key), RetentionWindow)]

append_output(B, task_id, run_id, message, outcome) ==
    LET key == buffer_key(task_id, run_id)
        pushed == lpush(B.lists, key, json_dumps(message))
        current_count == Len(lrange_all(pushed, key))
        meta_data == [message_count |-> current_count, task_id |-> task_id,
                      run_id |-> run_id, status |-> message.type]
    IN  IF outcome = "lpush_fails" THEN [B EXCEPT !.faults = @ + 1]
        ELSE IF outcome = "set_fails"
             THEN [B EXCEPT !.lists = pushed, !.faults = @ + 1]
             ELSE [B EXCEPT !.lists = pushed,
                            !.meta = redis_set(@, key, json_dumps(meta_data)),
                            !.ttl = expire(expire(persist(@, meta_key(key)),
                                                  list_key(key), RetentionWindow),
                                           meta_key(key), RetentionWindow)]

\* variant: the list is returned in lpush order, newest first
get_full_output_unreversed(lists, task_id, run_id) ==
    LET messages == lrange_all(lists, buffer_key(task_id, run_id))
    IN  [k \in 1..Len(messages) |-> json_loads(messages[k])]

get_full_output(lists, task_id, run_id) ==
    LET messages == lrange_all(lists, buffer_key(task_id, run_id))
        reversed == Reverse(messages)
    IN  [k \in 1..Len(reversed) |-> json_loads(reversed[k])]

\* variant: the comparison is >= instead of >
get_output_since_inclusive(lists, task_id, run_id, since_seq) ==
    LET all_output == get_full_output(lists, task_id, run_id)
        kept[k \in 0..Len(all_output)] ==
            IF k = 0 THEN <<>>
            ELSE IF all_output[k].seq >= since_seq
                 THEN Append(kept[k - 1], all_output[k]) ELSE kept[k - 1]
    IN  kept[Len(all_output)]

get_output_since(lists, task_id, run_id, since_seq) ==
    LET all_output == get_full_output(lists, task_id, run_id)
        \* [msg for msg in all_output if msg.get('seq', 0) > since_seq]
        kept[k \in 0..Len(all_output)] ==
            IF k = 0 THEN <<>>
            ELSE IF all_output[k].seq > since_seq
                 THEN Append(kept[k - 1], all_output[k]) ELSE kept[k - 1]
    IN  kept[Len(all_output)]

get_task_metadata(meta, task_id, run_id) ==
    LET meta_data == redis_get(meta, buffer_key(task_id, run_id))
    IN  IF meta_data # <<>> THEN <<json_loads(meta_data[1])>> ELSE <<>>

\* Python values that mark_task_complete handles: calling the async
\* get_task_metadata without await yields a coroutine object, not its result
CallWithoutAwait(result) == [kind |-> "coroutine", result |-> result]
Truthy(v) == v.kind = "coroutine" \/ (v.kind = "dict" /\ v.items # <<>>)
EmptyDict == [kind |-> "dict", items |-> <<>>]

mark_task_complete(B, task_id, run_id, final_status, outcome) ==
    LET key == buffer_key(task_id, run_id)
        called == CallWithoutAwait(get_task_metadata(B.meta, task_id, run_id))
        meta_data == IF Truthy(called) THEN called ELSE EmptyDict
        \* history of the call: the status and what was stored when it was made
        B1 == [B EXCEPT !.marks = Append(@,
                 [final_status |-> final_status,
                  appended |-> Len(lrange_all(B.lists, key)),
                  emitted |-> Len(B.emitted),
                  meta |-> get_task_metadata(B.meta, task_id, run_id)])]
    IN  IF meta_data.kind # "dict"
        THEN B1    \* AttributeError on .update, swallowed by the except clause
        ELSE IF outcome # "ok" THEN [B1 EXCEPT !.faults = @ + 1]
        ELSE LET old == IF meta_data.items = <<>>
                        THEN [message_count |-> 0, task_id |-> task_id,
                              run_id |-> run_id, status |-> "unknown"]
                        ELSE meta_data.items[1]
                 updated == [message_count |-> old.message_count,
                             task_id |-> old.task_id, run_id |-> old.run_id,
                             status |-> old.status,
                             final_status |-> final_status,
                             is_complete |-> TRUE]
             IN  [B1 EXCEPT !.meta = redis_set(@, key, json_dumps(updated)),
                            !.ttl = expire(persist(@, meta_key(key)),
                                           meta_key(key), RetentionWindow)]

\* ---- the per-user queue ----
\* asyncio.Queue.full(): a queue with maxsize <= 0 is never full
QueueFull(queue) == QueueMaxSize > 0 /\ Len(queue) >= QueueMaxSize
accepts(queue) == ~QueueFull(queue)

put_nowait(queue, message) ==
    IF QueueFull(queue)
    THEN queue                       \* asyncio.QueueFull
    ELSE Append(queue, message)

\* ---- send_message, the closure of run_task_streaming ----
Message(msg_type, content, task_id, run_id, seq, is_error) ==
    [type |-> msg_type, content |-> content, taskId |-> task_id,
     runId |-> run_id, seq |-> seq, isError |-> is_error]

\* variant: seq is set on the first send and not incremented afterwards
send_message_reusing_seq(B, task_id, run_id, msg_type, content, is_error, buffer, outcome) ==
    LET seq == IF B.seq = 0 THEN 1 ELSE B.seq
        message == Message(msg_type, content, task_id, run_id, seq, is_error)
        B1 == [B EXCEPT !.seq = seq, !.emitted = Append(@, message)]
        B2 == IF buffer /\ should_buffer_message(msg_type, content)
              THEN append_output(B1, task_id, run_id, message, outcome)
              ELSE B1
    IN  [B2 EXCEPT !.queue = put_nowait(@, message),
                   !.published = IF accepts(B2.queue) THEN Append(@, message) ELSE @]

\* variant: a Message whose append failed is not put on the queue
send_message_dropping_unstored(B, task_id, run_id, msg_type, content, is_error, buffer, outcome) ==
    LET seq == B.seq + 1
        message == Message(msg_type, content, task_id, run_id, seq, is_error)
        B1 == [B EXCEPT !.seq = seq, !.emitted = Append(@, message)]
        B2 == IF buffer /\ should_buffer_message(msg_type, content)
              THEN append_output(B1, task_id, run_id, message, outcome)
              ELSE B1
    IN  IF B2.faults > B1.faults THEN B2
        ELSE [B2 EXCEPT !.queue = put_nowait(@, message),
                        !.published = IF accepts(B2.queue) THEN Append(@, message)
                                      ELSE @]

\* variant: only the Messages that are stored are put on the queue
send_message_publishing_stored(B, task_id, run_id, msg_type, content, is_error, buffer, outcome) ==
    LET seq == B.seq + 1
        message == Message(msg_type, content, task_id, run_id, seq, is_error)
        B1 == [B EXCEPT !.seq = seq, !.emitted = Append(@, message)]
    IN  IF buffer /\ should_buffer_message(msg_type, content)
        THEN LET B2 == append_output(B1, task_id, run_id, message, outcome)
             IN  [B2 EXCEPT !.queue = put_nowait(@, message),
                            !.published = IF accepts(B2.queue)
                                          THEN Append(@, message) ELSE @]
        ELSE B1

send_message(B, task_id, run_id, msg_type, content, is_error, buffer, outcome) ==
    LET seq == B.seq + 1
        message == Message(msg_type, content, task_id, run_id, seq, is_error)
        B1 == [B EXCEPT !.seq = seq, !.emitted = Append(@, message)]
        B2 == IF buffer /\ should_buffer_message(msg_type, content)
              THEN append_output(B1, task_id, run_id, message, outcome)
              ELSE B1
    IN  [B2 EXCEPT !.queue = put_nowait(@, message),
                   !.published = IF accepts(B2.queue) THEN Append(@, message) ELSE @]

\* what stream_and_wait returns: a status code or the string "error: ..."
NoResult == [is_str |-> FALSE, code |-> 0 - 1, text |-> <<>>]
IntResult(code) == [is_str |-> FALSE, code |-> code, text |-> <<>>]
StrResult(text) == [is_str |-> TRUE, code |-> 0 - 1, text |-> text]

\* ---- names the runner derives ----
TempDir(i) == "tb_build_" \o ToString(i)
ContainerId(i) == "container-" \o ToString(i)
ImageName(task_id, run_id) == "tb-task-" \o task_id \o "-" \o run_id

TaskOutputBufferMethods == {"append_output", "get_full_output", "get_output_since",
                            "get_task_metadata", "mark_task_complete",
                            "cleanup_old_tasks"}

\* texts of the exceptions the phases raise
ZipMissingText == <<"Source zip file does not exist: ", "task.zip">>
ZipEmptyText == <<"Source zip file is empty">>
CopyFailsText == <<"No such file or directory: ", "Dockerfile">>
BuildFailsText == <<"The command returned a non-zero code: ", "Step ", "9/12">>
RunFailsText == <<"Cannot connect to the Docker daemon">>
DecodeFailsText == <<"'utf-8' codec can't decode byte">>
WaitFailsText == <<"Read timed out">>
ForceFlushText == <<"'TaskOutputBuffer' object has no attribute 'force_flush'">>

StageOutcomes == {"ok", "zip_missing", "zip_empty", "copy_fails"}

\* ---- the state one loop step of submission i works on ----
Max(S) == CHOOSE x \in S : \A y \in S : y <= x

\* variant: seq is one counter shared by all runs of the process
Bundle_shared_seq(i) ==
    [seq |-> Max({orch[j].seq : j \in Slots}), lists |-> redis_lists,
     meta |-> redis_meta, ttl |-> redis_ttl,
     queue |-> user_queues[orch[i].user_id],
     faults |-> faults, emitted |-> emitted[i], marks |-> mark_calls[i],
     published |-> published[orch[i].user_id]]

Bundle(i) ==
    [seq |-> orch[i].seq, lists |-> redis_lists, meta |-> redis_meta,
     ttl |-> redis_ttl,
     queue |-> user_queues[orch[i].user_id], faults |-> faults,
     emitted |-> emitted[i], marks |-> mark_calls[i],
     published |-> published[orch[i].user_id]]

\* variant: the run is marked complete before the error status is sent
ExceptClause_mark_first(B, task_id, run_id, task_name, e, outcome, mark_outcome) ==
    LET B1 == mark_task_complete(B, task_id, run_id, "error", mark_outcome)
        B2 == send_message(B1, task_id, run_id, "status", <<"Error: ">> \o e,
                           TRUE, TRUE, outcome)
    IN  [B |-> B2,
         result |-> [status |-> "error", task_name |-> task_name,
                     run_id |-> run_id, error |-> e]]

\* variant: the status Message of the except clause leaves the text of e out
ExceptClause_without_text(B, task_id, run_id, task_name, e, outcome, mark_outcome) ==
    LET B1 == send_message(B, task_id, run_id, "status", <<"Error: ">>,
                           TRUE, TRUE, outcome)
        B2 == mark_task_complete(B1, task_id, run_id, "error", mark_outcome)
    IN  [B |-> B2,
         result |-> [status |-> "error", task_name |-> task_name,
                     run_id |-> run_id, error |-> e]]

\* the except clause of run_task_streaming (runner.py 309-317)
ExceptClause(B, task_id, run_id, task_name, e, outcome, mark_outcome) ==
    LET B1 == send_message(B, task_id, run_id, "status", <<"Error: ">> \o e,
                           TRUE, TRUE, outcome)
        B2 == mark_task_complete(B1, task_id, run_id, "error", mark_outcome)
    IN  [B |-> B2,
         result |-> [status |-> "error", task_name |-> task_name,
                     run_id |-> run_id, error |-> e]]

\* the finally clause (runner.py 318-343).  The container is only printed:
\* container.remove is commented out.  The image is removed when
\* custom_image_name is bound, then the directory when temp_dir is set; each
\* step has its own try/except.  failing: the calls that raise in this run;
\* images.remove also raises when the image does not exist.
CleanupSteps == {"images.remove", "rmtree"}

\* variant: the removal of the directory is not wrapped in try/except
FinallyClause_rmtree_unguarded(d, temp_dir, container, custom_image_name, failing) ==
    LET image_fails == "images.remove" \in failing \/ custom_image_name \notin d.images
        dir_fails == "rmtree" \in failing
    IN  [docker |-> [d EXCEPT
                       !.images = IF custom_image_name # None /\ ~image_fails
                                  THEN @ \ {custom_image_name} ELSE @,
                       !.dirs = IF temp_dir # None /\ ~dir_fails
                                THEN @ \ {temp_dir} ELSE @],
         attempted |-> {c \in CleanupSteps :
                          \/ c = "images.remove" /\ custom_image_name # None
                          \/ c = "rmtree" /\ temp_dir # None},
         failed |-> {c \in CleanupSteps :
                       \/ c = "images.remove" /\ custom_image_name # None /\ image_fails
                       \/ c = "rmtree" /\ temp_dir # None /\ dir_fails},
         raised |-> temp_dir # None /\ dir_fails]

\* variant: the step that removes the image is missing
FinallyClause_keeping_image(d, temp_dir, container, custom_image_name, failing) ==
    LET dir_fails == "rmtree" \in failing
    IN  [docker |-> [d EXCEPT !.dirs = IF temp_dir # None /\ ~dir_fails
                                       THEN @ \ {temp_dir} ELSE @],
         attempted |-> {c \in CleanupSteps : c = "rmtree" /\ temp_dir # None},
         failed |-> {c \in CleanupSteps : c = "rmtree" /\ temp_dir # None /\ dir_fails},
         raised |-> FALSE]

\* variant: the whole cleanup is skipped when no container was created
FinallyClause_only_with_container(d, temp_dir, container, custom_image_name, failing) ==
    LET image_fails == "images.remove" \in failing \/ custom_image_name \notin d.images
        dir_fails == "rmtree" \in failing
        runs == container # None
    IN  [docker |-> [d EXCEPT
                       !.images = IF runs /\ custom_image_name # None /\ ~image_fails
                                  THEN @ \ {custom_image_name} ELSE @,
                       !.dirs = IF runs /\ temp_dir # None /\ ~dir_fails
                                THEN @ \ {temp_dir} ELSE @],
         attempted |-> {c \in CleanupSteps :
                          \/ c = "images.remove" /\ runs /\ custom_image_name # None
                          \/ c = "rmtree" /\ runs /\ temp_dir # None},
         failed |-> {c \in CleanupSteps :
                       \/ c = "images.remove" /\ runs /\ custom_image_name # None
                            /\ image_fails
                       \/ c = "rmtree" /\ runs /\ temp_dir # None /\ dir_fails},
         raised |-> FALSE]

FinallyClause(d, temp_dir, container, custom_image_name, failing) ==
    LET image_fails == "images.remove" \in failing \/ custom_image_name \notin d.images
        dir_fails == "rmtree" \in failing
    IN  [docker |-> [d EXCEPT
                       !.images = IF custom_image_name # None /\ ~image_fails
                                  THEN @ \ {custom_image_name} ELSE @,
                       !.dirs = IF temp_dir # None /\ ~dir_fails
                                THEN @ \ {temp_dir} ELSE @],
         attempted |-> {c \in CleanupSteps :
                          \/ c = "images.remove" /\ custom_image_name # None
                          \/ c = "rmtree" /\ temp_dir # None},
         failed |-> {c \in CleanupSteps :
                       \/ c = "images.remove" /\ custom_image_name # None /\ image_fails
                       \/ c = "rmtree" /\ temp_dir # None /\ dir_fails},
         raised |-> FALSE]

\* the messages run_task_background builds: from the result (main.py
\* 533-542), or from an exception of run_task_streaming (main.py 544-559)
completion_message(i, result) ==
    [type |-> "complete", content |-> <<"Task execution finished">>,
     taskId |-> req[i].task_id, runId |-> req[i].run_id,
     seq |-> HandlerSeq, result |-> result]

RmtreeFailsText == <<"Directory not empty: ", "tb_build_">>

error_message(i, e) ==
    [type |-> "error", content |-> <<"Task execution failed: ">> \o e,
     taskId |-> req[i].task_id, runId |-> req[i].run_id,
     seq |-> HandlerSeq, isError |-> TRUE, error |-> e]

\* run_task_streaming returns: finally clause, then run_task_background
\* puts its completion message on the queue (main.py 531-542)
Return(i, B, result, o) ==
    \E failing \in scenario.cleanup :
      LET f == FinallyClause(docker, o.temp_dir, o.container,
                             o.custom_image_name, failing)
          hm == IF f.raised THEN error_message(i, RmtreeFailsText)
                ELSE completion_message(i, result)
      IN  /\ failing \subseteq f.attempted
          /\ B.faults <= scenario.faults
          /\ orch' = [orch EXCEPT ![i] =
                        [o EXCEPT !.seq = B.seq,
                                  !.pc = IF f.raised THEN "raised" ELSE "returned",
                                  !.result = IF f.raised THEN None ELSE result,
                                  !.cleanup = [attempted |-> f.attempted,
                                               failed |-> f.failed]]]
          /\ docker' = f.docker
          /\ user_queues' = [user_queues EXCEPT ![o.user_id] = put_nowait(B.queue, hm)]
          /\ published' = [published EXCEPT ![o.user_id] =
                             IF accepts(B.queue) THEN Append(B.published, hm)
                             ELSE B.published]
          /\ handler_emitted' = [handler_emitted EXCEPT ![i] = Append(@, hm)]
          /\ redis_lists' = B.lists
          /\ redis_meta' = B.meta
          /\ redis_ttl' = B.ttl
          /\ faults' = B.faults
          /\ emitted' = [emitted EXCEPT ![i] = B.emitted]
          /\ mark_calls' = [mark_calls EXCEPT ![i] = B.marks]

\* run_task_streaming suspends at an await
Suspend(i, B, o) ==
    /\ B.faults <= scenario.faults
    /\ orch' = [orch EXCEPT ![i] = [o EXCEPT !.seq = B.seq]]
    /\ user_queues' = [user_queues EXCEPT ![o.user_id] = B.queue]
    /\ published' = [published EXCEPT ![o.user_id] = B.published]
    /\ redis_lists' = B.lists
    /\ redis_meta' = B.meta
    /\ redis_ttl' = B.ttl
    /\ faults' = B.faults
    /\ emitted' = [emitted EXCEPT ![i] = B.emitted]
    /\ mark_calls' = [mark_calls EXCEPT ![i] = B.marks]
    /\ UNCHANGED handler_emitted

\* ---- the registry of running tasks (redis.py 11-19) ----
task_key(user_id, task_name) == <<user_id, task_name>>

check_redis_running_tasks(running, user_id, task_id) ==
    redis_get(running, task_key(user_id, task_id)) # <<>>

\* variant: the key is only written when it holds no run yet
set_redis_running_task_if_absent(running, user_id, task_name, task_id) ==
    IF check_redis_running_tasks(running, user_id, task_name)
    THEN running
    ELSE redis_set(running, task_key(user_id, task_name), task_id)

set_redis_running_task(running, user_id, task_name, task_id) ==
    redis_set(running, task_key(user_id, task_name), task_id)

\* ---- run_task_from_firebase_storage (main.py 386-572) ----
Submit(user, name) ==
    /\ Len(req) < scenario.runs
    /\ user \in scenario.users /\ name \in scenario.names
    /\ LET i == Len(req) + 1
           run_id == Uuid(nextUuid + 1)
           task_id == name
           task_name == StripZip(name)
       IN  /\ nextUuid' = nextUuid + 1
           /\ req' = Append(req, [user_id |-> user, task_id |-> task_id,
                                  run_id |-> run_id, task_name |-> task_name,
                                  response |-> [status |-> "started",
                                                task_id |-> task_id,
                                                run_id |-> run_id,
                                                user_id |-> user]])
           \* run_task_streaming(temp_file_path, task_name, user_id, run_id, queue)
           /\ orch' = Append(orch, [task_name |-> task_name, user_id |-> user,
                                    task_id |-> run_id, run_id |-> None,
                                    seq |-> 0, pc |-> "created",
                                    temp_dir |-> None, container |-> None,
                                    custom_image_name |-> None,
                                    build |-> None, result |-> None,
                                    cleanup |-> [attempted |-> {},
                                                 failed |-> {}]])
           /\ worker' = Append(worker, [pc |-> "idle", execution_started |-> FALSE,
                                        output_buffer |-> <<>>, line |-> <<>>,
                                        buffered_msg |-> <<>>, flushing |-> <<>>,
                                        nread |-> 0, ret |-> NoResult,
                                        \* history: the sends the thread
                                        \* scheduled and the text each was
                                        \* scheduled for
                                        scheduled |-> <<>>])
           /\ ready' = Append(ready, [run |-> i, cb |-> "run_task_background"])
           /\ redis_running' = set_redis_running_task(redis_running, user, task_name,
                                                       run_id)
           /\ emitted' = Append(emitted, <<>>)
           /\ handler_emitted' = Append(handler_emitted, <<>>)
           /\ mark_calls' = Append(mark_calls, <<>>)
    /\ UNCHANGED <<user_queues, redis_lists, redis_meta, redis_ttl, faults, docker, last_read,
                   published, viewers, scenario, monitor>>

\* ---- run_task_streaming up to its first await (runner.py 44-207) ----
Start(i) ==
    /\ ready # <<>> /\ Head(ready) = [run |-> i, cb |-> "run_task_background"]
    /\ \E stage \in StageOutcomes, o1, o2, om \in Outcomes :
         LET run_id == Uuid(nextUuid + 1)
             o == [orch[i] EXCEPT !.run_id = run_id]
             B1 == send_message(Bundle(i), o.task_id, run_id, "status",
                                <<"Starting task: ", o.task_name>>, FALSE, TRUE, o1)
         IN  /\ nextUuid' = nextUuid + 1
             /\ ready' = Tail(ready)
             /\ IF stage = "ok"
                THEN LET B2 == send_message(B1, o.task_id, run_id, "status",
                                   <<"Building custom Docker image with task file...">>,
                                   FALSE, TRUE, o2)
                     IN  /\ om = "ok"
                         /\ Suspend(i, B2, [o EXCEPT !.temp_dir = TempDir(i),
                                  !.custom_image_name = ImageName(o.task_id, run_id),
                                  !.pc = "building"])
                         /\ docker' = [docker EXCEPT !.dirs = @ \cup {TempDir(i)}]
                ELSE LET e == CASE stage = "zip_missing" -> ZipMissingText
                                [] stage = "zip_empty" -> ZipEmptyText
                                [] OTHER -> CopyFailsText
                         x == ExceptClause(B1, o.task_id, run_id, o.task_name, e, o2, om)
                     IN  Return(i, x.B, x.result,
                                [o EXCEPT !.temp_dir = IF stage = "copy_fails"
                                                       THEN TempDir(i) ELSE None])
    /\ UNCHANGED <<req, worker, redis_running, last_read, viewers, scenario, monitor>>

\* ---- build_image on the executor thread (runner.py 194-205) ----
BuildImage(i, ok) ==
    /\ orch[i].pc = "building" /\ orch[i].build = None
    /\ orch' = [orch EXCEPT ![i].build = IF ok THEN "built" ELSE "failed"]
    /\ docker' = IF ok THEN [docker EXCEPT !.images = @ \cup {orch[i].custom_image_name}]
                 ELSE docker
    /\ ready' = Append(ready, [run |-> i, cb |-> "build_done"])
    /\ UNCHANGED <<nextUuid, req, worker, user_queues, redis_lists, redis_meta, redis_ttl,
                   redis_running, faults, emitted, handler_emitted, mark_calls,
                   last_read, published, viewers, scenario, monitor>>

\* ---- from the build's result to the second await (runner.py 207-284) ----
AfterBuild(i) ==
    /\ ready # <<>> /\ Head(ready) = [run |-> i, cb |-> "build_done"]
    /\ ready' = Tail(ready)
    /\ \E run_ok \in BOOLEAN, o1, o2, om \in Outcomes :
         LET o == orch[i]
         IN  IF o.build = "failed"
             THEN LET x == ExceptClause(Bundle(i), o.task_id, o.run_id, o.task_name,
                                        BuildFailsText, o1, om)
                  IN  /\ o2 = "ok" /\ run_ok
                      /\ Return(i, x.B, x.result, o)
                      /\ UNCHANGED worker
             ELSE LET B1 == send_message(Bundle(i), o.task_id, o.run_id, "status",
                                <<"Image built successfully: ", o.custom_image_name>>,
                                FALSE, TRUE, o1)
                  IN  IF run_ok
                      THEN LET B2 == send_message(B1, o.task_id, o.run_id, "status",
                                         <<"Container started: ", ContainerId(i)>>,
                                         FALSE, TRUE, o2)
                           IN  /\ om = "ok"
                               /\ Suspend(i, B2, [o EXCEPT !.container = ContainerId(i),
                                                           !.pc = "streaming"])
                               /\ docker' = [docker EXCEPT
                                               !.containers = @ \cup {ContainerId(i)}]
                               /\ worker' = [worker EXCEPT ![i].pc = "iter"]
                      ELSE LET x == ExceptClause(B1, o.task_id, o.run_id, o.task_name,
                                                 RunFailsText, o2, om)
                           IN  /\ Return(i, x.B, x.result, o)
                               /\ UNCHANGED worker
    /\ UNCHANGED <<nextUuid, req, redis_running, last_read, viewers, scenario, monitor>>

\* ---- stream_and_wait on the executor thread (runner.py 242-281) ----
\* asyncio.run_coroutine_threadsafe(coro, loop) and the completion of the
\* executor future both reach the loop through call_soon_threadsafe, in two
\* hops each, so one FIFO of callbacks orders them.
\* variant: the loop runs the callback scheduled last first
Schedule_at_front(i, cb) == ready' = <<[run |-> i, cb |-> cb]>> \o ready

Schedule(i, cb) == ready' = Append(ready, [run |-> i, cb |-> cb])

WorkerUnchanged == UNCHANGED <<nextUuid, req, orch, user_queues, redis_lists,
                               redis_meta, redis_ttl, redis_running, faults, docker, emitted,
                               handler_emitted, mark_calls, last_read,
                               published, viewers, scenario, monitor>>

\* the for statement takes the next log line: decode, rstrip, marker test
WorkerRead(i, log_line) ==
    /\ worker[i].pc = "iter" /\ worker[i].nread < scenario.lines
    /\ log_line \in scenario.raw_lines
    /\ LET w == [worker[i] EXCEPT !.nread = @ + 1]
           line == rstrip(log_line)
       IN  IF Contains(log_line, InvalidUtf8)
           THEN /\ worker' = [worker EXCEPT ![i] =
                                [w EXCEPT !.pc = "done",
                                          !.ret = StrResult(<<"error: ">> \o DecodeFailsText)]]
                /\ Schedule(i, "stream_done")
           ELSE IF line = <<>>
           THEN /\ worker' = [worker EXCEPT ![i] = [w EXCEPT !.line = line]]
                /\ UNCHANGED ready
           ELSE IF Contains(line, Marker)
           THEN /\ worker' = [worker EXCEPT ![i] =
                                [w EXCEPT !.line = line, !.execution_started = TRUE,
                                          !.flushing = w.output_buffer,
                                          !.pc = IF w.output_buffer = <<>>
                                                 THEN "dispatch" ELSE "flush"]]
                /\ UNCHANGED ready
           ELSE /\ worker' = [worker EXCEPT ![i] = [w EXCEPT !.line = line,
                                                             !.pc = "dispatch"]]
                /\ UNCHANGED ready
    /\ WorkerUnchanged

\* one turn of "for buffered_msg in output_buffer", then output_buffer.clear()
WorkerFlush(i) ==
    /\ worker[i].pc = "flush"
    /\ LET w == worker[i]
           rest == Tail(w.flushing)
       IN  worker' = [worker EXCEPT ![i] =
                        [w EXCEPT !.buffered_msg = Head(w.flushing),
                                  !.scheduled = Append(@, [cb |-> "send_buffered",
                                                           text |-> Head(w.flushing)]),
                                  !.flushing = rest,
                                  !.output_buffer = IF rest = <<>> THEN <<>> ELSE @,
                                  !.pc = IF rest = <<>> THEN "dispatch" ELSE "flush"]]
    /\ Schedule(i, "send_buffered")
    /\ WorkerUnchanged

\* the if/else that schedules the send of the current line
WorkerDispatch(i) ==
    /\ worker[i].pc = "dispatch"
    /\ LET w == worker[i]
       IN  IF ~w.execution_started
           THEN /\ worker' = [worker EXCEPT ![i] =
                                [w EXCEPT !.output_buffer =
                                            IF should_buffer_message("output", w.line)
                                            THEN Append(@, w.line) ELSE @,
                                          !.scheduled =
                                            Append(@, [cb |-> "send_build_message",
                                                       text |-> w.line]),
                                          !.pc = "iter"]]
                /\ Schedule(i, "send_build_message")
           ELSE /\ worker' = [worker EXCEPT ![i] =
                                [w EXCEPT !.scheduled =
                                            Append(@, [cb |-> "send_exec_message",
                                                       text |-> w.line]),
                                          !.pc = "iter"]]
                /\ Schedule(i, "send_exec_message")
    /\ WorkerUnchanged

\* the log stream ends and container.wait() returns or raises
WorkerWait(i, status_code, wait_ok) ==
    /\ worker[i].pc = "iter"
    /\ worker' = [worker EXCEPT ![i].pc = "done",
                                ![i].ret = IF wait_ok THEN IntResult(status_code)
                                           ELSE StrResult(<<"error: ">> \o WaitFailsText)]
    /\ Schedule(i, "stream_done")
    /\ WorkerUnchanged

\* the container has terminated but the iterator of container.logs(stream=True,
\* follow=True) neither yields another line nor ends: the thread stays in
\* the for statement (runner.py 247)
WorkerStall(i) ==
    /\ scenario.stalls
    /\ worker[i].pc = "iter"
    /\ worker' = [worker EXCEPT ![i].pc = "blocked"]
    /\ UNCHANGED ready
    /\ WorkerUnchanged

\* ---- a send scheduled by the worker runs on the loop ----
\* the closures read line and buffered_msg when they run, not when scheduled
SendCallbacks == {"send_buffered", "send_build_message", "send_exec_message"}

ScheduledSend(i, cb) ==
    /\ cb \in SendCallbacks
    /\ ready # <<>> /\ Head(ready) = [run |-> i, cb |-> cb]
    /\ ready' = Tail(ready)
    /\ \E o1 \in Outcomes :
         LET o == orch[i]
             content == IF cb = "send_buffered" THEN worker[i].buffered_msg
                        ELSE worker[i].line
             B1 == send_message(Bundle(i), o.task_id, o.run_id, "output", content,
                                FALSE, cb # "send_build_message", o1)
         IN  Suspend(i, B1, o)
    /\ UNCHANGED <<nextUuid, req, worker, redis_running, docker, last_read,
                   viewers, scenario, monitor>>

\* ---- from the worker's result to the return (runner.py 284-317) ----
\* isinstance(exit_code, str) and exit_code.startswith("error:")
IsErrorString(exit_code) ==
    exit_code.is_str /\ exit_code.text # <<>> /\ exit_code.text[1] = "error: "

AfterStream(i) ==
    /\ ready # <<>> /\ Head(ready) = [run |-> i, cb |-> "stream_done"]
    /\ ready' = Tail(ready)
    /\ \E o1, o2, om \in Outcomes :
         LET o == orch[i]
             ret == worker[i].ret
             exit_code == ret.code
         IN  IF IsErrorString(ret)
             THEN LET x == ExceptClause(Bundle(i), o.task_id, o.run_id, o.task_name,
                                        Tail(ret.text), o1, om)
                  IN  /\ o2 = "ok"
                      /\ Return(i, x.B, x.result, o)
             ELSE IF exit_code = 0
             THEN LET B1 == send_message(Bundle(i), o.task_id, o.run_id, "status",
                                         <<"Task completed successfully">>,
                                         FALSE, TRUE, o1)
                      B2 == mark_task_complete(B1, o.task_id, o.run_id, "success", om)
                  IN  /\ o2 = "ok"
                      /\ Return(i, B2, [status |-> "success", exit_code |-> exit_code,
                                        task_name |-> o.task_name,
                                        run_id |-> o.run_id], o)
             ELSE LET B1 == send_message(Bundle(i), o.task_id, o.run_id, "status",
                                <<"Task failed with exit code ", ToString(exit_code)>>,
                                TRUE, TRUE, o1)
                  IN  IF "force_flush" \in TaskOutputBufferMethods
                      THEN /\ o2 = "ok" /\ om = "ok"
                           /\ Return(i, B1, [status |-> "failed",
                                             exit_code |-> exit_code,
                                             task_name |-> o.task_name,
                                             run_id |-> o.run_id,
                                             error |-> <<"Container exited with code ",
                                                         ToString(exit_code)>>], o)
                      ELSE LET x == ExceptClause(B1, o.task_id, o.run_id, o.task_name,
                                                 ForceFlushText, o2, om)
                           IN  Return(i, x.B, x.result, o)
    /\ UNCHANGED <<nextUuid, req, worker, redis_running, last_read, viewers,
                   scenario, monitor>>

\* ---- reads of the buffer (redis.py 78-119) ----
ReadUnchanged == UNCHANGED <<nextUuid, req, orch, worker, ready, user_queues,
                             redis_meta, redis_ttl, redis_running, faults, docker, emitted,
                             handler_emitted, mark_calls, published, viewers,
                             scenario, monitor>>

Read(op, task_id, run_id, since_seq, result) ==
    /\ last_read.count < scenario.reads
    /\ last_read' = [op |-> op, task_id |-> task_id, run_id |-> run_id,
                     since_seq |-> since_seq, result |-> result,
                     count |-> last_read.count + 1]

\* variant: the read pops the list it returns
CallGetFullOutput_consuming(task_id, run_id) ==
    /\ run_id # None
    /\ Read("get_full_output", task_id, run_id, 0,
            get_full_output(redis_lists, task_id, run_id))
    /\ redis_lists' = [k \in DOMAIN redis_lists \ {buffer_key(task_id, run_id)}
                         |-> redis_lists[k]]
    /\ ReadUnchanged

CallGetFullOutput(task_id, run_id) ==
    /\ run_id # None
    /\ Read("get_full_output", task_id, run_id, 0,
            get_full_output(redis_lists, task_id, run_id))
    /\ UNCHANGED redis_lists
    /\ ReadUnchanged

CallGetOutputSince(task_id, run_id, since_seq) ==
    /\ run_id # None
    /\ Read("get_output_since", task_id, run_id, since_seq,
            get_output_since(redis_lists, task_id, run_id, since_seq))
    /\ UNCHANGED redis_lists
    /\ ReadUnchanged

CallGetTaskMetadata(task_id, run_id) ==
    /\ run_id # None
    /\ Read("get_task_metadata", task_id, run_id, 0,
            get_task_metadata(redis_meta, task_id, run_id))
    /\ UNCHANGED redis_lists
    /\ ReadUnchanged

\* ---- alerts.py of the microservice-health-monitor task ----
\* config['services'], in the order of config.json
Services == <<"auth", "database", "cache">>

\* what requests.get of a service's /health can give: a status code, or an
\* exception (connection refused, timeout)
HealthResponses == {"200", "503", "ConnectionError"}

NotStarted == [pc |-> "not started", config_exists |-> FALSE,
               health_service_running |-> FALSE,
               service |-> 0, rounds |-> 0, log_exists |-> FALSE, log |-> <<>>,
               checked |-> <<>>]

\* check_service_health: 'healthy' for status 200, 'unhealthy' for any other
\* status and for any exception
check_service_health(response) ==
    IF response = "ConnectionError" THEN "unhealthy"
    ELSE IF response = "200" THEN "healthy" ELSE "unhealthy"

\* log_alert: open('alerts.log', 'a') creates the file and appends a line
log_alert(m, message) == [m EXCEPT !.log_exists = TRUE, !.log = Append(@, message)]

MonitorUnchanged ==
    UNCHANGED <<nextUuid, req, orch, worker, ready, user_queues, redis_lists,
                redis_meta, redis_running, redis_ttl, faults, docker, emitted,
                handler_emitted, mark_calls, last_read, published, viewers,
                scenario>>

\* python3 alerts.py: monitor_services() calls load_config()
StartMonitor(config_exists, health_service_running) ==
    /\ monitor.pc = "not started"
    /\ monitor' = [monitor EXCEPT
                     !.pc = IF config_exists THEN "poll" ELSE "crashed",
                     !.config_exists = config_exists,
                     !.health_service_running = health_service_running]
    /\ MonitorUnchanged

\* the top of the while loop: requests.get of the health service, outside
\* any try block, so that its exception ends monitor_services
PollHealthService ==
    /\ monitor.pc = "poll"
    /\ monitor.rounds < MaxRounds
    /\ monitor' = IF monitor.health_service_running
                  THEN [monitor EXCEPT !.pc = "check", !.service = 1,
                                       !.checked = <<>>]
                  ELSE [monitor EXCEPT !.pc = "crashed"]
    /\ MonitorUnchanged

\* one turn of "for service in config['services']"
CheckService(response) ==
    /\ monitor.pc = "check"
    /\ LET name == Services[monitor.service]
           status == check_service_health(response)
           m1 == IF status # "healthy"
                 THEN log_alert(monitor, <<"ALERT: Service ", name, " is ", status>>)
                 ELSE monitor
       IN  monitor' = [m1 EXCEPT
                         !.checked = Append(@, status),
                         !.service = IF monitor.service < Len(Services)
                                     THEN @ + 1 ELSE 0,
                         !.pc = IF monitor.service < Len(Services)
                                THEN "check" ELSE "sleep"]
    /\ MonitorUnchanged

\* time.sleep(10) returns
Sleep ==
    /\ monitor.pc = "sleep"
    /\ monitor' = [monitor EXCEPT !.pc = "poll", !.rounds = @ + 1]
    /\ MonitorUnchanged

\* ---- expiry of the keys (redis.py 63-64, 136) ----
\* the lengths of time that pass in one step
Durations == {RetentionWindow \div 2, RetentionWindow}

\* d seconds pass: Redis deletes every key whose time to live has run out
Elapse(d) ==
    /\ DOMAIN redis_ttl # {}
    /\ LET expired == {k \in DOMAIN redis_ttl : redis_ttl[k] <= d}
       IN  /\ redis_ttl' = [k \in DOMAIN redis_ttl \ expired |-> redis_ttl[k] - d]
           /\ redis_lists' = [k \in {x \in DOMAIN redis_lists : list_key(x) \notin expired}
                                |-> redis_lists[k]]
           /\ redis_meta' = [k \in {x \in DOMAIN redis_meta : meta_key(x) \notin expired}
                               |-> redis_meta[k]]
    /\ UNCHANGED <<nextUuid, req, orch, worker, ready, user_queues, redis_running,
                   faults, docker, emitted, handler_emitted, mark_calls, last_read,
                   published, viewers, scenario, monitor>>

\* ---- GET /task-status/{task_id}/{run_id} (main.py 370-384) ----
\* an exception as the handler sees it; str() of starlette's HTTPException
\* is "<status_code>: <detail>"
HTTPException(status_code, detail) ==
    [kind |-> "HTTPException", status_code |-> status_code, detail |-> detail]
RedisError == [kind |-> "Exception", detail |-> <<"Connection refused">>]
str(e) == IF e.kind = "HTTPException"
          THEN <<ToString(e.status_code), ": ">> \o e.detail
          ELSE e.detail
IsException(e) == e.kind \in {"HTTPException", "Exception"}

\* the body of the try block: what it returns or raises
get_task_status_try(meta, task_id, run_id, redis_ok) ==
    IF ~redis_ok THEN [raised |-> TRUE, e |-> RedisError]
    ELSE LET metadata == get_task_metadata(meta, task_id, run_id)
         IN  IF metadata = <<>>
             THEN [raised |-> TRUE, e |-> HTTPException(404, <<"Task not found">>)]
             ELSE [raised |-> FALSE, value |-> metadata[1]]

\* the response: "except Exception as e" also catches the HTTPException that
\* the try block raised
get_task_status(meta, task_id, run_id, redis_ok) ==
    LET body == get_task_status_try(meta, task_id, run_id, redis_ok)
    IN  IF body.raised /\ IsException(body.e)
        THEN [status_code |-> 500,
              detail |-> <<"Error retrieving task status: ">> \o str(body.e)]
        ELSE [status_code |-> 200, body |-> body.value]

CallGetTaskStatus(task_id, run_id, redis_ok) ==
    /\ run_id # None
    /\ Read("get_task_status", task_id, run_id, 0,
            get_task_status(redis_meta, task_id, run_id, redis_ok))
    /\ UNCHANGED redis_lists
    /\ ReadUnchanged

\* the identifiers a client asks about: those of the Messages and those the
\* submission returned
StatusRequests ==
    {[task_id |-> orch[i].task_id, run_id |-> orch[i].run_id] : i \in Slots}
      \cup {[task_id |-> req[i].response.task_id,
              run_id |-> req[i].response.run_id] : i \in Slots}

\* ---- the filter of the live loop of /stream (main.py 330-334) ----
stream_filter(task_id, run_id, msg) ==
    /\ ~(task_id # None /\ msg.taskId # task_id)
    /\ ~(run_id # None /\ msg.runId # run_id)

\* ---- GET /stream (main.py 280-343) ----
\* the methods of TaskOutputBuffer declared "async def": only their results
\* can be awaited; "await" on the list get_full_output returns is a TypeError
CoroutineFunctions == {"get_output_since", "get_task_metadata", "cleanup_old_tasks"}

\* an SSE event the generator yielded, and the part of gen() that yielded it
Event(part, msg) == [part |-> part, msg |-> msg]

ViewerUnchanged == UNCHANGED <<nextUuid, req, orch, worker, ready, redis_lists,
                               redis_meta, redis_ttl, redis_running, faults, docker, emitted,
                               handler_emitted, mark_calls, last_read, published,
                               scenario, monitor>>

\* the request arrives and gen() runs its replay part: the stored Messages
\* are read once and yielded until the client is found disconnected
stream(user_id, task_id, run_id, since_seq, connected) ==
    /\ Len(viewers) < scenario.viewers
    /\ user_id \in scenario.users
    /\ LET method == IF since_seq > 0 THEN "get_output_since" ELSE "get_full_output"
           replays == task_id # None /\ run_id # None
           raises == method \notin CoroutineFunctions
           buffered_messages ==
               IF replays /\ ~raises
               THEN get_output_since(redis_lists, task_id, run_id, since_seq)
               ELSE <<>>
           yielded == SubSeq(buffered_messages, 1, connected)
       IN  /\ connected \in 0..Len(buffered_messages)
           /\ viewers' = Append(viewers,
                [user_id |-> user_id, task_id |-> task_id, run_id |-> run_id,
                 since_seq |-> since_seq,
                 pc |-> IF ~replays \/ raises THEN "live"
                        ELSE IF connected < Len(buffered_messages) THEN "closed"
                        ELSE "check",
                 received |-> [k \in 1..Len(yielded) |-> Event("replay", yielded[k])],
                 \* time spent in the current wait_for(q.get(), timeout=15)
                 waited |-> 0,
                 \* history: time since the last event yielded, time in the
                 \* live loop, Messages published before the live loop began
                 silent |-> 0,
                 age |-> 0,
                 live_from |-> Len(published[user_id])])
    /\ UNCHANGED user_queues
    /\ ViewerUnchanged

\* after the replay: "if metadata and metadata.get('is_complete'): return"
GenCheckComplete(v) ==
    /\ viewers[v].pc = "check"
    /\ LET metadata == get_task_metadata(redis_meta, viewers[v].task_id,
                                         viewers[v].run_id)
           is_complete == /\ metadata # <<>>
                          /\ "is_complete" \in DOMAIN metadata[1]
                          /\ metadata[1].is_complete
       IN  viewers' = [viewers EXCEPT ![v].pc = IF is_complete THEN "closed"
                                                ELSE "live",
                                      ![v].live_from =
                                          Len(published[viewers[v].user_id])]
    /\ UNCHANGED user_queues
    /\ ViewerUnchanged

\* variant: the newest Message of the queue is taken instead of the oldest
GenLive_newest_first(v) ==
    /\ viewers[v].pc = "live"
    /\ user_queues[viewers[v].user_id] # <<>>
    /\ LET q == user_queues[viewers[v].user_id]
           msg == q[Len(q)]
       IN  /\ user_queues' = [user_queues EXCEPT ![viewers[v].user_id] =
                                SubSeq(q, 1, Len(q) - 1)]
           /\ viewers' = [viewers EXCEPT
                 ![v].received =
                     IF stream_filter(viewers[v].task_id, viewers[v].run_id, msg)
                     THEN Append(@, Event("live", msg)) ELSE @,
                 \* "continue" goes back to a new wait_for and its new timeout
                 ![v].waited = 0,
                 ![v].silent =
                     IF stream_filter(viewers[v].task_id, viewers[v].run_id, msg)
                     THEN 0 ELSE @]
    /\ ViewerUnchanged

\* one turn of the live loop with a Message on the queue: q.get() takes it
\* from the user's queue, the filter drops it or the generator yields it
GenLive(v) ==
    /\ viewers[v].pc = "live"
    /\ user_queues[viewers[v].user_id] # <<>>
    /\ LET q == user_queues[viewers[v].user_id]
           msg == Head(q)
       IN  /\ user_queues' = [user_queues EXCEPT ![viewers[v].user_id] = Tail(q)]
           /\ viewers' = [viewers EXCEPT
                 ![v].received =
                     IF stream_filter(viewers[v].task_id, viewers[v].run_id, msg)
                     THEN Append(@, Event("live", msg)) ELSE @,
                 \* "continue" goes back to a new wait_for and its new timeout
                 ![v].waited = 0,
                 ![v].silent =
                     IF stream_filter(viewers[v].task_id, viewers[v].run_id, msg)
                     THEN 0 ELSE @]
    /\ ViewerUnchanged

\* the timeout of wait_for expires with the queue empty: asyncio.TimeoutError
\* is caught and the generator yields 'event: ping' with the data '{}'
ping == Event("ping", EmptyDict)

GenPing(v) ==
    /\ viewers[v].pc = "live"
    /\ user_queues[viewers[v].user_id] = <<>>
    /\ viewers[v].waited = HeartbeatTimeout
    /\ viewers' = [viewers EXCEPT ![v].received = Append(@, ping),
                                  ![v].waited = 0, ![v].silent = 0]
    /\ UNCHANGED user_queues
    /\ ViewerUnchanged

\* one unit of time passes while every live loop waits in wait_for: q.get()
\* returns at once when the queue holds a Message, and the timeout ends the
\* wait when HeartbeatTimeout units have passed
Tick ==
    /\ \E v \in 1..Len(viewers) : viewers[v].pc = "live"
    /\ \A v \in 1..Len(viewers) :
         viewers[v].pc = "live" =>
           /\ user_queues[viewers[v].user_id] = <<>>
           /\ viewers[v].waited < HeartbeatTimeout
           /\ viewers[v].age < scenario.clock
    /\ viewers' = [v \in 1..Len(viewers) |->
                     IF viewers[v].pc = "live"
                     THEN [viewers[v] EXCEPT !.waited = @ + 1, !.silent = @ + 1,
                                             !.age = @ + 1]
                     ELSE viewers[v]]
    /\ UNCHANGED user_queues
    /\ ViewerUnchanged

\* variant: a disconnect cancels the callbacks scheduled on the loop
GenDisconnect_cancelling_run(v) ==
    /\ viewers[v].pc \in {"check", "live"}
    /\ viewers' = [viewers EXCEPT ![v].pc = "closed"]
    /\ ready' = <<>>
    /\ UNCHANGED <<user_queues, nextUuid, req, orch, worker, redis_lists,
                   redis_meta, redis_ttl, redis_running, faults, docker, emitted,
                   handler_emitted, mark_calls, last_read, published, scenario, monitor>>

\* the client goes away: request.is_disconnected() ends the loop
GenDisconnect(v) ==
    /\ viewers[v].pc \in {"check", "live"}
    /\ viewers' = [viewers EXCEPT ![v].pc = "closed"]
    /\ UNCHANGED user_queues
    /\ ViewerUnchanged

\* the requests a client makes: no filter, the identifiers the Messages
\* carry, or the identifiers the submission returned
StreamRequests ==
    {[task_id |-> None, run_id |-> None, since_seq |-> 0]}
      \cup {[task_id |-> orch[i].task_id, run_id |-> orch[i].run_id, since_seq |-> n] :
              i \in {j \in Slots : orch[j].run_id # None}, n \in SinceSeqs}
      \cup {[task_id |-> req[i].response.task_id, run_id |-> req[i].response.run_id,
             since_seq |-> 0] : i \in Slots}

\* ---- specification ----
InitWith(limits) ==
    /\ scenario = limits
    /\ nextUuid = 0
    /\ req = <<>>
    /\ orch = <<>>
    /\ worker = <<>>
    /\ ready = <<>>
    /\ user_queues = [u \in Users |-> <<>>]
    /\ published = [u \in Users |-> <<>>]
    /\ viewers = <<>>
    /\ redis_lists = <<>>
    /\ redis_meta = <<>>
    /\ redis_ttl = <<>>
    /\ monitor = NotStarted
    /\ redis_running = <<>>
    /\ faults = 0
    /\ docker = [images |-> {}, containers |-> {}, dirs |-> {}]
    /\ emitted = <<>>
    /\ handler_emitted = <<>>
    /\ mark_calls = <<>>
    /\ last_read = [op |-> "none", task_id |-> None, run_id |-> None,
                    since_seq |-> 0, result |-> <<>>, count |-> 0]

Next ==
    \/ \E user \in Users, name \in RequestNames : Submit(user, name)
    \/ \E i \in Slots : Start(i)
    \/ \E i \in Slots, ok \in BOOLEAN : BuildImage(i, ok)
    \/ \E i \in Slots : AfterBuild(i)
    \/ \E i \in Slots, log_line \in RawLines : WorkerRead(i, log_line)
    \/ \E i \in Slots : WorkerFlush(i)
    \/ \E i \in Slots : WorkerDispatch(i)
    \/ \E i \in Slots, c \in ExitCodes, wait_ok \in BOOLEAN : WorkerWait(i, c, wait_ok)
    \/ \E i \in Slots, cb \in SendCallbacks : ScheduledSend(i, cb)
    \/ \E i \in Slots : AfterStream(i)

\* one run in full detail
Init == InitWith([runs |-> 1, lines |-> MaxLines, faults |-> MaxFaults,
                  users |-> {"u1"}, names |-> RequestNames,
                  raw_lines |-> RawLines, reads |-> 0, viewers |-> 0,
      cleanup |-> SUBSET CleanupSteps, stalls |-> FALSE, clock |-> 0])
Spec == Init /\ [][Next]_vars

\* concurrent runs, with shorter logs and a Redis that does not fail
InitConcurrent == InitWith([runs |-> MaxRuns, lines |-> MaxConcurrentLines,
                            faults |-> 0, users |-> Users, names |-> {"hello"},
                            raw_lines |-> RawLines, reads |-> 0, viewers |-> 0,
      cleanup |-> {{}}, stalls |-> FALSE, clock |-> 0])
NextConcurrent ==
    \/ \E user \in Users, name \in RequestNames : Submit(user, name)
    \/ \E i \in Slots : Start(i)
    \/ \E i \in Slots, ok \in BOOLEAN : BuildImage(i, ok)
    \/ \E i \in Slots : AfterBuild(i)
    \/ \E i \in Slots, log_line \in RawLines : WorkerRead(i, log_line)
    \/ \E i \in Slots : WorkerDispatch(i)
    \/ \E i \in Slots, c \in ExitCodes, wait_ok \in BOOLEAN : WorkerWait(i, c, wait_ok)
    \/ \E i \in Slots, cb \in SendCallbacks : ScheduledSend(i, cb)
    \/ \E i \in Slots : AfterStream(i)
SpecConcurrent == InitConcurrent /\ [][NextConcurrent]_vars

\* submissions of the same task by the same user, their containers logging
\* nothing
InitRegistry == InitWith([runs |-> MaxRuns, lines |-> 0, faults |-> 0,
                          users |-> {"u1"}, names |-> {"hello"},
                          raw_lines |-> {}, reads |-> 0, viewers |-> 0,
                          cleanup |-> {{}}, stalls |-> FALSE, clock |-> 0])
NextRegistry ==
    \/ \E user \in Users, name \in RequestNames : Submit(user, name)
    \/ \E i \in Slots : Start(i)
    \/ \E i \in Slots, ok \in BOOLEAN : BuildImage(i, ok)
    \/ \E i \in Slots : AfterBuild(i)
    \/ \E i \in Slots, c \in ExitCodes, wait_ok \in BOOLEAN : WorkerWait(i, c, wait_ok)
    \/ \E i \in Slots : AfterStream(i)
SpecRegistry == InitRegistry /\ [][NextRegistry]_vars

\* the alerts.py process alone
InitAlerts == InitWith([runs |-> 0, lines |-> 0, faults |-> 0,
                        users |-> {}, names |-> {}, raw_lines |-> {},
                        reads |-> 0, viewers |-> 0,
                        cleanup |-> {{}}, stalls |-> FALSE, clock |-> 0])
NextAlerts ==
    \/ \E config_exists, health_service_running \in BOOLEAN :
          StartMonitor(config_exists, health_service_running)
    \/ PollHealthService
    \/ \E response \in HealthResponses : CheckService(response)
    \/ Sleep
SpecAlerts == InitAlerts /\ [][NextAlerts]_vars

\* one run whose Redis commands may fail, reading the lines of ReadLines
InitFaults == InitWith([runs |-> 1, lines |-> MaxLines, faults |-> MaxFaults,
                        users |-> {"u1"}, names |-> {"hello"},
                        raw_lines |-> ReadLines, reads |-> 0, viewers |-> 0,
                        cleanup |-> {{}}, stalls |-> FALSE, clock |-> 0])
SpecFaults == InitFaults /\ [][Next]_vars

\* one run whose Redis keys expire as time passes
InitExpiry == InitWith([runs |-> 1, lines |-> MaxLines, faults |-> MaxFaults,
                        users |-> {"u1"}, names |-> {"hello"},
                        raw_lines |-> ReadLines, reads |-> 0, viewers |-> 0,
                        cleanup |-> {{}}, stalls |-> FALSE, clock |-> 0])
NextExpiry == Next \/ \E d \in Durations : Elapse(d)
SpecExpiry == InitExpiry /\ [][NextExpiry]_vars

\* one run whose buffer is read through the TaskOutputBuffer methods
InitReads == InitWith([runs |-> 1, lines |-> MaxLines, faults |-> 0,
                       users |-> {"u1"}, names |-> {"hello"},
                       raw_lines |-> ReadLines, reads |-> MaxReads,
                       viewers |-> 0,
      cleanup |-> {{}}, stalls |-> FALSE, clock |-> 0])
NextReads ==
    \/ Next
    \/ \E i \in Slots : CallGetFullOutput(orch[i].task_id, orch[i].run_id)
    \/ \E i \in Slots : \E since_seq \in 0..orch[i].seq :
          CallGetOutputSince(orch[i].task_id, orch[i].run_id, since_seq)
    \/ \E i \in Slots : CallGetTaskMetadata(orch[i].task_id, orch[i].run_id)
    \/ \E r \in StatusRequests, redis_ok \in BOOLEAN :
          CallGetTaskStatus(r.task_id, r.run_id, redis_ok)
SpecReads == InitReads /\ [][NextReads]_vars

\* the steps of the /stream requests
NextStream ==
    \/ \E user \in Users, r \in StreamRequests, connected \in 0..MaxLines + 6 :
          stream(user, r.task_id, r.run_id, r.since_seq, connected)
    \/ \E v \in 1..Len(viewers) : GenCheckComplete(v)
    \/ \E v \in 1..Len(viewers) : GenLive(v)
    \/ \E v \in 1..Len(viewers) : GenDisconnect(v)

\* one run whose log stream may block for ever after the container's end
InitStall == InitWith([runs |-> 1, lines |-> MaxLines, faults |-> 0,
                       users |-> {"u1"}, names |-> {"hello"},
                       raw_lines |-> ReadLines, reads |-> 0, viewers |-> 0,
                       cleanup |-> {{}}, stalls |-> TRUE, clock |-> 0])
NextStall == Next \/ \E i \in Slots : WorkerStall(i)
SpecStall == InitStall /\ [][NextStall]_vars

\* one run watched by a single /stream request
InitViewers == InitWith([runs |-> 1, lines |-> MaxLines, faults |-> 0,
                         users |-> {"u1"}, names |-> {"hello"},
                         raw_lines |-> {<<"hello", "\n">>,
                                        <<"=== RUNNING TASK ===", "\n">>},
                         reads |-> 0, viewers |-> 1,
      cleanup |-> {{}}, stalls |-> FALSE, clock |-> 0])
NextViewers == Next \/ NextStream
SpecViewers == InitViewers /\ [][NextViewers]_vars

\* one run of a container that logs nothing, watched by several /stream
\* requests at once
InitFanOut == InitWith([runs |-> 1, lines |-> 0, faults |-> 0,
                        users |-> {"u1"}, names |-> {"hello"},
                        raw_lines |-> {}, reads |-> 0, viewers |-> MaxViewers,
      cleanup |-> {{}}, stalls |-> FALSE, clock |-> 0])
\* one run of a container that logs nothing, watched by one /stream request
\* while time passes
InitHeartbeat == InitWith([runs |-> 1, lines |-> 0, faults |-> 0,
                           users |-> {"u1"}, names |-> {"hello"},
                           raw_lines |-> {}, reads |-> 0, viewers |-> 1,
                           cleanup |-> {{}}, stalls |-> FALSE, clock |-> MaxTime])
NextHeartbeat ==
    \/ \E user \in Users, name \in RequestNames : Submit(user, name)
    \/ \E i \in Slots : Start(i)
    \/ \E i \in Slots, ok \in BOOLEAN : BuildImage(i, ok)
    \/ \E i \in Slots : AfterBuild(i)
    \/ \E i \in Slots, c \in ExitCodes, wait_ok \in BOOLEAN : WorkerWait(i, c, wait_ok)
    \/ \E i \in Slots : AfterStream(i)
    \/ NextStream
    \/ \E v \in 1..Len(viewers) : GenPing(v)
    \/ Tick
SpecHeartbeat == InitHeartbeat /\ [][NextHeartbeat]_vars

NextFanOut ==
    \/ \E user \in Users, name \in RequestNames : Submit(user, name)
    \/ \E i \in Slots : Start(i)
    \/ \E i \in Slots, ok \in BOOLEAN : BuildImage(i, ok)
    \/ \E i \in Slots : AfterBuild(i)
    \/ \E i \in Slots, c \in ExitCodes, wait_ok \in BOOLEAN : WorkerWait(i, c, wait_ok)
    \/ \E i \in Slots : AfterStream(i)
    \/ NextStream
SpecFanOut == InitFanOut /\ [][NextFanOut]_vars

\* ---- properties ----
Started(i) == orch[i].run_id # None
Persisted(i) == get_full_output(redis_lists, orch[i].task_id, orch[i].run_id)
Metadata(i) == get_task_metadata(redis_meta, orch[i].task_id, orch[i].run_id)
SeqsOf(msgs) == [k \in 1..Len(msgs) |-> msgs[k].seq]
Elems(msgs) == {msgs[k] : k \in 1..Len(msgs)}

StrictlyIncreasing(seqs) ==
    \A a, b \in 1..Len(seqs) : a < b => seqs[a] < seqs[b]

RECURSIVE IsSubsequence(_, _)
IsSubsequence(a, b) ==
    IF a = <<>> THEN TRUE
    ELSE IF b = <<>> THEN FALSE
    ELSE IF Head(a) = Head(b) THEN IsSubsequence(Tail(a), Tail(b))
    ELSE IsSubsequence(a, Tail(b))

\* C1: every Message the orchestrator emits for a submission carries the
\* task_id and run_id the submission returned, passes the stream's filter for
\* those identifiers, and what is persisted for the run is what
\* get_full_output returns for them.
C1_ReturnedIdsObserveRun ==
    \A i \in Slots :
      LET r == req[i].response
      IN  /\ \A k \in 1..Len(emitted[i]) :
                /\ emitted[i][k].taskId = r.task_id
                /\ emitted[i][k].runId = r.run_id
                /\ stream_filter(r.task_id, r.run_id, emitted[i][k])
          /\ Started(i) => get_full_output(redis_lists, r.task_id, r.run_id)
                             = Persisted(i)

\* C2: within one run the first Message has seq 1 and the seq values grow
\* strictly, in the order of creation and in the order on the user's queue,
\* so two Messages with one runId never share a seq.
C2_SeqStrictlyIncreasing ==
    /\ \A i \in Slots :
         /\ emitted[i] # <<>> => emitted[i][1].seq = 1
         /\ StrictlyIncreasing(SeqsOf(emitted[i]))
    /\ \A u \in Users : \A a, b \in 1..Len(user_queues[u]) :
         (a < b /\ user_queues[u][a].runId = user_queues[u][b].runId)
           => user_queues[u][a].seq < user_queues[u][b].seq

C2_Witness ==
    \E i \in Slots :
      /\ Len(emitted[i]) >= 6
      /\ \E k \in 1..Len(emitted[i]) : emitted[i][k].type = "output"
      /\ orch[i].pc = "returned"

\* C3: every Message on a user's queue or in a Redis list is one that some
\* run's send_message created, so its seq was assigned by the orchestrator.
C3_OnlyOrchestratorMintsSeq ==
    LET minted == UNION {Elems(emitted[i]) : i \in Slots}
    IN  /\ \A u \in Users : \A k \in 1..Len(user_queues[u]) :
             user_queues[u][k] \in minted
        /\ \A key \in DOMAIN redis_lists : \A k \in 1..Len(redis_lists[key]) :
             json_loads(redis_lists[key][k]) \in minted

\* C4: concurrent runs have different run_ids and each run's Messages carry
\* seq 1, 2, 3, ... without gap or repeat, whatever the other run emits.
C4_IndependentSeqCounters ==
    /\ \A i \in Slots : \A k \in 1..Len(emitted[i]) :
         /\ emitted[i][k].seq = k
         /\ emitted[i][k].runId = orch[i].run_id
    /\ \A i, j \in Slots :
         (i # j /\ Started(i) /\ Started(j)) => orch[i].run_id # orch[j].run_id

C4_Witness ==
    \E u \in Users : \E a, b, c \in 1..Len(user_queues[u]) :
      /\ a < b /\ b < c
      /\ user_queues[u][a].runId = user_queues[u][c].runId
      /\ user_queues[u][a].runId # user_queues[u][b].runId
      /\ user_queues[u][b].seq >= 2 /\ user_queues[u][c].seq >= 3
      /\ user_queues[u][c].type = "output"

\* C5: for every run, get_full_output returns Messages with strictly
\* increasing seq that form a subsequence, in creation order, of the Messages
\* the run's send_message created; every Redis list belongs to a started run.
C5_PersistedIncreasingSubsequence ==
    /\ \A i \in Slots :
         Started(i) => /\ StrictlyIncreasing(SeqsOf(Persisted(i)))
                       /\ IsSubsequence(Persisted(i), emitted[i])
    /\ \A key \in DOMAIN redis_lists :
         \E i \in Slots : key = buffer_key(orch[i].task_id, orch[i].run_id)

C5_Witness ==
    \E i \in Slots :
      /\ faults = 0
      /\ Len(Persisted(i)) >= 5
      /\ \E k \in 1..(Len(Persisted(i)) - 1) :
           Persisted(i)[k + 1].seq > Persisted(i)[k].seq + 1
      /\ Persisted(i)[Len(Persisted(i))].seq = Len(emitted[i])

\* C6: for every run and every N >= 0, get_output_since(run, N) is the suffix
\* of get_full_output(run) that starts at the first Message with seq > N: all
\* its Messages have seq > N and no Message with seq > N is left out.
C6_SinceIsSuffixAboveN ==
    \A i \in Slots : Started(i) =>
      \A N \in 0..(orch[i].seq + 1) :
        LET full == Persisted(i)
            since == get_output_since(redis_lists, orch[i].task_id,
                                      orch[i].run_id, N)
            above == {k \in 1..Len(full) : full[k].seq > N}
        IN  /\ Len(since) = Cardinality(above)
            /\ since = SubSeq(full, Len(full) - Len(since) + 1, Len(full))
            /\ \A k \in 1..Len(since) : since[k].seq > N

C6_Witness ==
    /\ last_read.op = "get_output_since"
    /\ last_read.since_seq > 0
    /\ Len(last_read.result) >= 2
    /\ \E i \in Slots :
         /\ last_read.run_id = orch[i].run_id
         /\ Len(last_read.result) < Len(Persisted(i))
         /\ \E k \in 1..Len(Persisted(i)) : Persisted(i)[k].seq = last_read.since_seq

\* C7: a read (get_full_output, get_output_since, get_task_metadata) changes
\* neither the Redis list nor the metadata, and calling get_full_output again
\* right after a call returns the same ordered content.
C7_ReadsChangeNothing ==
    [][last_read'.count # last_read.count =>
         /\ redis_lists' = redis_lists
         /\ redis_meta' = redis_meta
         /\ last_read'.op = "get_full_output" =>
              get_full_output(redis_lists', last_read'.task_id, last_read'.run_id)
                = last_read'.result]_vars

C7_Witness ==
    /\ last_read.op = "get_full_output"
    /\ last_read.count = 2
    /\ Len(last_read.result) >= 3

\* C8: once mark_task_complete has been called for a run (and no Redis
\* command failed), get_task_metadata reports is_complete = true and the
\* final status that was given.
C8_MarkCompleteRecorded ==
    \A i \in Slots :
      (mark_calls[i] # <<>> /\ faults = 0) =>
        /\ Metadata(i) # <<>>
        /\ "is_complete" \in DOMAIN Metadata(i)[1]
        /\ Metadata(i)[1].is_complete
        /\ Metadata(i)[1].final_status
             = mark_calls[i][Len(mark_calls[i])].final_status

\* C9: the orchestrator calls mark_task_complete at most once per run and
\* only after its last append: from that call on no Message is created or
\* appended for the run and the metadata, message_count included, stays as
\* it was; the same holds from the moment the metadata has is_complete.
C9_FrozenAfterMarkComplete ==
    \A i \in Slots :
      /\ mark_calls[i] # <<>> =>
           /\ Len(mark_calls[i]) = 1
           /\ mark_calls[i][1].appended = Len(Persisted(i))
           /\ mark_calls[i][1].emitted = Len(emitted[i])
           /\ mark_calls[i][1].meta = Metadata(i)
           /\ orch[i].pc = "returned"
      /\ (Started(i) /\ Metadata(i) # <<>> /\ "is_complete" \in DOMAIN Metadata(i)[1])
           => orch[i].pc = "returned"

C9_Witness ==
    \E i \in Slots :
      /\ mark_calls[i] # <<>>
      /\ mark_calls[i][1].final_status = "success"
      /\ Len(Persisted(i)) >= 5
      /\ Metadata(i) # <<>> /\ Metadata(i)[1].message_count = Len(Persisted(i))

\* C10: while no Redis command has failed, every Message of kind status,
\* error or complete created for a run, by send_message or by
\* run_task_background, is in the Redis list of its taskId and runId.
C10_StatusErrorCompletePersisted ==
    faults = 0 =>
      \A i \in Slots :
        \A m \in Elems(emitted[i]) \cup Elems(handler_emitted[i]) :
          m.type \in AlwaysBuffered =>
            m \in Elems(get_full_output(redis_lists, m.taskId, m.runId))

\* C11: when a run has returned and no Redis command failed, an output
\* Message's payload is among the persisted output Messages exactly when it
\* matches none of the noise patterns, for lines before and after the marker
\* line and for logs without a marker line.
C11_OutputPersistedIffNotNoise ==
    \A i \in Slots :
      (orch[i].pc = "returned" /\ faults = 0) =>
        \A m \in Elems(emitted[i]) :
          m.type = "output" =>
            ((\E p \in Elems(Persisted(i)) :
                 p.type = "output" /\ p.content = m.content)
               <=> should_buffer_message("output", m.content))

\* C12: every Message a run's send_message creates, stored in Redis or not,
\* has been put on the queue of the run's user, in the order of creation.
C12_EveryMessagePublished ==
    \A i \in Slots : IsSubsequence(emitted[i], published[orch[i].user_id])

C12_Witness ==
    \E i \in Slots :
      /\ orch[i].pc = "returned" /\ faults = 0
      /\ \E m \in Elems(emitted[i]) :
           /\ m.type = "output" /\ ~should_buffer_message("output", m.content)
           /\ m \notin Elems(Persisted(i))
           /\ m \in Elems(published[orch[i].user_id])
      /\ \E m \in Elems(emitted[i]) :
           /\ m.type = "output" /\ should_buffer_message("output", m.content)
           /\ m \notin Elems(Persisted(i))
           /\ m \in Elems(published[orch[i].user_id])

\* C13: a user's queue has a finite capacity (a maxsize above 0, below which
\* asyncio.Queue is unbounded) and never holds more Messages than that, so a
\* put on a full queue leaves it as it was.
C13_LiveChannelBounded ==
    \A u \in Users :
      user_queues[u] # <<>> =>
        /\ QueueMaxSize > 0
        /\ Len(user_queues[u]) <= QueueMaxSize
        /\ QueueFull(user_queues[u]) =>
             \A m \in Elems(published[u]) : put_nowait(user_queues[u], m) = user_queues[u]

\* C14: when a run has returned and no Redis command failed, each Message
\* it created is in what get_full_output returns exactly when
\* should_buffer_message accepts it, whether a /stream request took it from
\* the queue, filtered it out, or left it on the queue.
C14_PersistedAsFilterDecides ==
    \A i \in Slots :
      (orch[i].pc = "returned" /\ faults = 0) =>
        \A m \in Elems(emitted[i]) :
          m \in Elems(Persisted(i)) <=> should_buffer_message(m.type, m.content)

\* the Messages a /stream request yielded from its live loop, in order
LiveReceived(v) ==
    LET received == viewers[v].received
        live[k \in 0..Len(received)] ==
            IF k = 0 THEN <<>>
            ELSE IF received[k].part = "live"
                 THEN Append(live[k - 1], received[k].msg) ELSE live[k - 1]
    IN  live[Len(received)]

\* C15: a /stream request that is in its live loop, with nothing left on the
\* user's queue, has yielded every Message that was put on that queue since
\* its live loop began and that passes its task_id/run_id filter, also when
\* another request of the same user is in its live loop.
C15_FanOutToEveryViewer ==
    \A v \in 1..Len(viewers) :
      LET u == viewers[v].user_id
      IN  (viewers[v].pc = "live" /\ user_queues[u] = <<>>) =>
            \A k \in (viewers[v].live_from + 1)..Len(published[u]) :
              stream_filter(viewers[v].task_id, viewers[v].run_id, published[u][k])
                => published[u][k] \in Elems(LiveReceived(v))

\* the Messages of msgs that pass the filter of /stream request v, in order
Filtered(v, msgs) ==
    LET kept[k \in 0..Len(msgs)] ==
            IF k = 0 THEN <<>>
            ELSE IF stream_filter(viewers[v].task_id, viewers[v].run_id, msgs[k])
                 THEN Append(kept[k - 1], msgs[k]) ELSE kept[k - 1]
    IN  kept[Len(msgs)]

\* C16: a /stream request that is the only one of its user has yielded, from
\* its live loop, the Messages taken from the user's queue so far that pass
\* its filter, in the order they were put on the queue; the Messages of one
\* runId among them have strictly increasing seq, those that the log worker
\* thread scheduled included.
C16_SingleSubscriberFifo ==
    \A v \in 1..Len(viewers) :
      LET u == viewers[v].user_id
          taken == SubSeq(published[u], 1, Len(published[u]) - Len(user_queues[u]))
          live == LiveReceived(v)
      IN  (\A w \in 1..Len(viewers) : w # v => viewers[w].user_id # u) =>
            /\ live = Filtered(v, taken)
            /\ \A a, b \in 1..Len(live) :
                 (a < b /\ live[a].runId = live[b].runId) => live[a].seq < live[b].seq

C16_Witness ==
    \E v \in 1..Len(viewers) :
      LET live == LiveReceived(v)
      IN  /\ viewers[v].run_id # None
          /\ Len(live) >= 6
          /\ \E a, b \in 1..Len(live) :
               /\ a < b /\ live[a].type = "output" /\ live[b].type = "output"
          /\ live[Len(live)].type = "status"
          /\ user_queues[viewers[v].user_id] # <<>>

\* the phase a run is in once it has sent a status Message, by the text the
\* Message begins with, and the rank of the phase in the linear order
PhaseOf(m) ==
    CASE Head(m.content) = "Starting task: " -> "PREPARING"
      [] Head(m.content) = "Building custom Docker image with task file..." -> "BUILDING"
      [] Head(m.content) = "Image built successfully: " -> "STARTING"
      [] Head(m.content) = "Container started: " -> "RUNNING"
      [] Head(m.content) = "Task completed successfully" -> "SUCCEEDED"
      [] Head(m.content) = "Task failed with exit code " -> "FAILED"
      [] Head(m.content) = "Error: " -> "ERRORED"

TerminalPhases == {"SUCCEEDED", "FAILED", "ERRORED"}

PhaseRank(phase) ==
    CASE phase = "PREPARING" -> 1
      [] phase = "BUILDING" -> 2
      [] phase = "STARTING" -> 3
      [] phase = "RUNNING" -> 4
      [] phase \in TerminalPhases -> 5

\* C17: the status Messages of a run name its phases in the linear order,
\* each phase at most once and at most one terminal phase; after the status
\* Message of a terminal phase the run creates no Message; a run that has
\* returned is in a terminal phase.
C17_LinearPhases ==
    \A i \in Slots :
      LET msgs == emitted[i]
          status == {k \in 1..Len(msgs) : msgs[k].type = "status"}
      IN  /\ \A a, b \in status :
               a < b => PhaseRank(PhaseOf(msgs[a])) < PhaseRank(PhaseOf(msgs[b]))
          /\ \A a \in status :
               PhaseOf(msgs[a]) \in TerminalPhases => a = Len(msgs)
          /\ orch[i].pc = "returned" =>
               /\ msgs # <<>>
               /\ msgs[Len(msgs)].type = "status"
               /\ PhaseOf(msgs[Len(msgs)]) \in TerminalPhases

\* C18: a run whose container exited with code 0, once returned and with no
\* Redis command failed, has the result status success, its last persisted
\* Message is of type complete, and its metadata reports success and
\* is_complete = true.
C18_ExitZeroSucceeds ==
    \A i \in Slots :
      (orch[i].pc = "returned" /\ worker[i].ret = IntResult(0) /\ faults = 0) =>
        /\ orch[i].result.status = "success"
        /\ PhaseOf(emitted[i][Len(emitted[i])]) = "SUCCEEDED"
        /\ Persisted(i) # <<>>
        /\ Persisted(i)[Len(Persisted(i))].type = "complete"
        /\ Metadata(i) # <<>>
        /\ \/ Metadata(i)[1].status = "success"
           \/ /\ "final_status" \in DOMAIN Metadata(i)[1]
              /\ Metadata(i)[1].final_status = "success"
        /\ "is_complete" \in DOMAIN Metadata(i)[1]
        /\ Metadata(i)[1].is_complete

\* C19: a run whose container exited with a nonzero code c, once returned
\* and with no Redis command failed, has the result status failed with
\* exit_code c, a persisted status Message with isError whose text contains
\* c, ends in the phase FAILED, and mark_task_complete was given "failed".
C19_NonzeroExitFails ==
    \A i \in Slots :
      LET c == worker[i].ret.code
      IN  (orch[i].pc = "returned" /\ ~worker[i].ret.is_str /\ c > 0 /\ faults = 0) =>
            /\ orch[i].result.status = "failed"
            /\ "exit_code" \in DOMAIN orch[i].result
            /\ orch[i].result.exit_code = c
            /\ \E m \in Elems(Persisted(i)) :
                 m.type = "status" /\ m.isError /\ Contains(m.content, ToString(c))
            /\ PhaseOf(emitted[i][Len(emitted[i])]) = "FAILED"
            /\ mark_calls[i] # <<>>
            /\ mark_calls[i][Len(mark_calls[i])].final_status = "failed"

\* the exception texts of the phases before the build
StagingTexts == {ZipMissingText, ZipEmptyText, CopyFailsText}

\* C20: a run in which a phase raised (staging, image build, container
\* start, log streaming, wait, or the call of the missing force_flush) has
\* returned the result status error with the exception's text, its last
\* Message is a status Message with isError and the text "Error: " followed
\* by that text, and run_task_background received the result: it built its
\* completion message, not its error message.
C20_ExceptionsCaught ==
    \A i \in Slots :
      orch[i].pc = "returned" =>
        LET result == orch[i].result
            last == emitted[i][Len(emitted[i])]
            raised == \/ orch[i].custom_image_name = None
                      \/ orch[i].build = "failed"
                      \/ orch[i].container = None
                      \/ IsErrorString(worker[i].ret)
                      \/ worker[i].ret.code > 0
        IN  /\ handler_emitted[i] = <<completion_message(i, result)>>
            /\ raised <=> result.status = "error"
            /\ result.status = "error" =>
                 /\ last.type = "status" /\ last.isError
                 /\ last.content = <<"Error: ">> \o result.error
            /\ orch[i].custom_image_name = None => result.error \in StagingTexts
            /\ orch[i].build = "failed" => result.error = BuildFailsText
            /\ (orch[i].build = "built" /\ orch[i].container = None)
                 => result.error = RunFailsText
            /\ IsErrorString(worker[i].ret) => result.error = Tail(worker[i].ret.text)

C20_Witness ==
    \E i \in Slots :
      /\ orch[i].pc = "returned"
      /\ orch[i].result.status = "error"
      /\ orch[i].result.error = WaitFailsText
      /\ \E m \in Elems(emitted[i]) : m.type = "output"
      /\ emitted[i][Len(emitted[i])].content = <<"Error: ">> \o WaitFailsText

C23_AsymmetricContainerCleanup ==
    \A i \in Slots :
      orch[i].pc = "returned" =>
        /\ orch[i].result.status = "success" => ContainerId(i) \notin docker.containers
        /\ (orch[i].result.status # "success" /\ orch[i].container # None)
             => ContainerId(i) \in docker.containers

\* C24: whatever cleanup calls fail, the run returns (it does not raise),
\* run_task_background gets the result the try block computed (success with
\* exit code 0, or error with the text of the caught exception), and the
\* run's last Message is the status Message of its terminal phase: nothing
\* about the cleanup is sent.
C24_CleanupFailuresNotEscalated ==
    \A i \in Slots :
      /\ orch[i].pc # "raised"
      /\ orch[i].pc = "returned" =>
           LET result == orch[i].result
               last == emitted[i][Len(emitted[i])]
           IN  /\ handler_emitted[i] = <<completion_message(i, result)>>
               /\ last.type = "status" /\ PhaseOf(last) \in TerminalPhases
               /\ PhaseOf(last) = "SUCCEEDED" =>
                    result = [status |-> "success", exit_code |-> 0,
                              task_name |-> orch[i].task_name,
                              run_id |-> orch[i].run_id]
               /\ PhaseOf(last) = "ERRORED" =>
                    result = [status |-> "error", task_name |-> orch[i].task_name,
                              run_id |-> orch[i].run_id, error |-> Tail(last.content)]

C24_Witness ==
    \E i \in Slots :
      /\ orch[i].pc = "returned"
      /\ orch[i].cleanup.failed = CleanupSteps
      /\ orch[i].result.status = "success"
      /\ orch[i].custom_image_name \in docker.images /\ TempDir(i) \in docker.dirs

\* the steps run i can take: of its orchestrator and of its worker threads
RunStep(i) ==
    \/ Start(i)
    \/ \E ok \in BOOLEAN : BuildImage(i, ok)
    \/ AfterBuild(i)
    \/ \E log_line \in RawLines : WorkerRead(i, log_line)
    \/ WorkerFlush(i)
    \/ WorkerDispatch(i)
    \/ \E c \in ExitCodes, wait_ok \in BOOLEAN : WorkerWait(i, c, wait_ok)
    \/ \E cb \in SendCallbacks : ScheduledSend(i, cb)
    \/ AfterStream(i)

\* C25: a run whose container has terminated while its log stream blocks
\* has returned or can still take a step: the orchestrator does not wait for
\* the log worker without bound.
C25_NoHangOnLogSource ==
    \A i \in Slots :
      worker[i].pc = "blocked" => (orch[i].pc = "returned" \/ ENABLED RunStep(i))

\* a step in which a /stream request ends by its client's disconnect: in
\* the live loop or after the replay (GenDisconnect), or during the replay
Disconnects ==
    \/ /\ Len(viewers') = Len(viewers)
       /\ \E v \in 1..Len(viewers) :
            viewers[v].pc # "closed" /\ viewers'[v].pc = "closed"
    \/ /\ Len(viewers') = Len(viewers) + 1
       /\ viewers'[Len(viewers')].pc = "closed"

\* C26: a step in which a /stream request ends by disconnect leaves the
\* orchestrators, their workers, the scheduled callbacks, the Messages
\* created, the Redis lists and metadata and the user's queue as they were,
\* the submissions, the injected faults and the Docker daemon as they were:
\* nothing a run's next step reads has changed, so the run goes on to its
\* terminal state as it would have.
C26_DisconnectChangesNoRun ==
    [][Disconnects =>
         UNCHANGED <<nextUuid, req, orch, worker, ready, emitted, handler_emitted,
                     mark_calls, redis_lists, redis_meta, redis_ttl, redis_running, faults,
                     docker, user_queues, published, scenario, monitor>>]_vars

C26_Witness ==
    \E v \in 1..Len(viewers) : \E i \in Slots :
      /\ viewers[v].pc = "closed"
      /\ LiveReceived(v) # <<>>
      /\ Len(published[viewers[v].user_id]) > viewers[v].live_from + Len(LiveReceived(v)) + 2
      /\ orch[i].pc = "returned"
      /\ orch[i].result.status = "success"
      /\ user_queues[viewers[v].user_id] # <<>>

\* the /stream request that the step opened, if it opened one
Opened == viewers'[Len(viewers')]
Opens == Len(viewers') = Len(viewers) + 1
MsgsOfEvents(events) == [k \in 1..Len(events) |-> events[k].msg]
IsPrefix(s, t) == Len(s) <= Len(t) /\ s = SubSeq(t, 1, Len(s))

\* C27: a /stream request with task_id and run_id yields, before its live
\* loop begins, the stored Messages of the run in stored order: those with
\* seq > since_seq when since_seq > 0 and all of get_full_output otherwise
\* (a prefix of them when the client disconnects during the replay).
C27_ReplayBeforeLive ==
    [][Opens =>
         LET w == Opened
             stored == IF w.since_seq > 0
                       THEN get_output_since(redis_lists, w.task_id, w.run_id, w.since_seq)
                       ELSE get_full_output(redis_lists, w.task_id, w.run_id)
             replayed == MsgsOfEvents(w.received)
         IN  (w.task_id # None /\ w.run_id # None) =>
               /\ \A k \in 1..Len(w.received) : w.received[k].part = "replay"
               /\ IF w.pc = "closed" THEN IsPrefix(replayed, stored)
                                     ELSE replayed = stored]_vars

\* C28: no /stream request for the ids of a run whose mark_task_complete
\* has been called enters the live loop, and such a request opened with
\* since_seq = 0 yields all of get_full_output unless its client disconnects.
C28_CompletedRunReplaysAndCloses ==
    [][\A v \in 1..Len(viewers') : \A i \in Slots :
         LET w == viewers'[v]
             opened == v > Len(viewers)
         IN  ( /\ w.run_id # None /\ w.run_id = orch[i].run_id
               /\ w.task_id = orch[i].task_id
               /\ mark_calls[i] # <<>>
               /\ opened \/ viewers[v].pc = "check" ) =>
               /\ w.pc # "live"
               /\ (opened /\ w.since_seq = 0 /\ w.pc # "closed") =>
                     MsgsOfEvents(w.received)
                       = get_full_output(redis_lists, w.task_id, w.run_id)]_vars

\* C29: a /stream request in its live loop has yielded an event, a Message
\* or a ping, within the last HeartbeatTimeout units of time, whether it
\* filters by task_id and run_id or not; a ping has no seq and no content,
\* and no Redis list holds one.
C29_HeartbeatWithinInterval ==
    /\ \A v \in 1..Len(viewers) :
         /\ viewers[v].pc = "live" => viewers[v].silent <= HeartbeatTimeout
         /\ \A k \in 1..Len(viewers[v].received) :
              viewers[v].received[k].part = "ping" =>
                /\ "seq" \notin DOMAIN viewers[v].received[k].msg
                /\ "content" \notin DOMAIN viewers[v].received[k].msg
    /\ \A key \in DOMAIN redis_lists :
         \A k \in 1..Len(redis_lists[key]) : json_loads(redis_lists[key][k]) # ping.msg

\* the bound on the silence of the requests that do not filter
UnfilteredHeartbeat ==
    \A v \in 1..Len(viewers) :
      (viewers[v].pc = "live" /\ viewers[v].task_id = None /\ viewers[v].run_id = None)
        => viewers[v].silent <= HeartbeatTimeout

\* the submissions made for the same user and task name as submission i
SameKey(i) ==
    {j \in Slots : req[j].user_id = req[i].user_id /\ req[j].task_name = req[i].task_name}
Latest(S) == CHOOSE j \in S : \A k \in S : k <= j

\* C30: every submission is answered "started" and has its own run, created
\* whatever the registry held and never waiting for another run to end (it
\* is scheduled on the loop or already running), and the registry key of a
\* user and task name holds the run_id of the latest submission made for them.
C30_RegistryLastWriteWins ==
    \A i \in Slots :
      /\ req[i].response.status = "started"
      /\ req[i].response.run_id = req[i].run_id
      /\ orch[i].task_id = req[i].run_id
      /\ \/ orch[i].pc # "created"
         \/ \E k \in 1..Len(ready) : ready[k] = [run |-> i, cb |-> "run_task_background"]
      /\ redis_get(redis_running, task_key(req[i].user_id, req[i].task_name))
           = <<req[Latest(SameKey(i))].run_id>>

C30_Witness ==
    \E i, j \in Slots :
      /\ i < j /\ j \in SameKey(i)
      /\ orch[i].pc = "streaming" /\ orch[j].pc = "streaming"
      /\ check_redis_running_tasks(redis_running, req[i].user_id, req[i].task_name)
      /\ redis_get(redis_running, task_key(req[i].user_id, req[i].task_name))
           = <<req[j].run_id>>
      /\ req[i].run_id # req[j].run_id

Terminal(i) == orch[i].pc \in {"returned", "raised"}

\* C31: the registry key of a user and task name is present while a run
\* submitted for them is in flight, and it is absent once the latest run
\* submitted for them has returned to run_task_background.
C31_MarkerClearedAfterTerminal ==
    \A i \in Slots :
      LET active == check_redis_running_tasks(redis_running, req[i].user_id,
                                              req[i].task_name)
      IN  /\ ~Terminal(i) => active
          /\ (i = Latest(SameKey(i)) /\ Terminal(i)) => ~active

\* no Message with these identifiers was ever created, and Redis holds
\* nothing under them
NeverWritten(task_id, run_id) ==
    /\ \A i \in Slots : \A m \in Elems(emitted[i]) :
         ~(m.taskId = task_id /\ m.runId = run_id)
    /\ buffer_key(task_id, run_id) \notin DOMAIN redis_lists \cup DOMAIN redis_meta

\* C32: a status query for identifiers under which nothing was ever written,
\* made while Redis answers, is answered 404 (not the 500 of an internal
\* error), and get_task_metadata returns None for such identifiers.
C32_UnwrittenRunNotFound ==
    [][\A r \in StatusRequests :
         (NeverWritten(r.task_id, r.run_id)
            /\ CallGetTaskStatus(r.task_id, r.run_id, TRUE)) =>
           /\ get_task_metadata(redis_meta, r.task_id, r.run_id) = <<>>
           /\ last_read'.result.status_code = 404]_vars

\* the keys of a run's entry and the time each has left
HasTtl(k) == k \in DOMAIN redis_ttl
EntryKeys == DOMAIN redis_lists \cup DOMAIN redis_meta

\* an entry is whole and its two keys expire together
ExpiresAsWhole ==
    \A key \in EntryKeys :
      /\ key \in DOMAIN redis_lists /\ key \in DOMAIN redis_meta
      /\ HasTtl(list_key(key)) /\ HasTtl(meta_key(key))
      /\ redis_ttl[list_key(key)] = redis_ttl[meta_key(key)]
      /\ redis_ttl[list_key(key)] \in 1..RetentionWindow

\* the steps in which run i's entry is updated: a Message is appended to its
\* list with no Redis command failing, or mark_task_complete is called for it
EntryKey(i) == buffer_key(orch[i].task_id, orch'[i].run_id)
Appended(i) ==
    /\ EntryKey(i) \in DOMAIN redis_lists'
    /\ lrange_all(redis_lists', EntryKey(i)) # lrange_all(redis_lists, EntryKey(i))
    /\ faults' = faults
Marked(i) ==
    /\ mark_calls'[i] # mark_calls[i]
    /\ EntryKey(i) \in DOMAIN redis_lists' \cup DOMAIN redis_meta'

\* C33: the list and the metadata of an entry that was written with no Redis
\* command failing exist together with the same time to live; every step
\* that appends to the entry or calls mark_task_complete for it leaves both
\* with the whole RetentionWindow; and when time passes both are deleted
\* exactly when that time has run out, whatever the metadata says about
\* completion.
C33_EntryExpiresAsWhole ==
    /\ [](faults = 0 => ExpiresAsWhole)
    /\ [][\A i \in Slots :
            (Appended(i) \/ Marked(i)) =>
              /\ list_key(EntryKey(i)) \in DOMAIN redis_ttl'
              /\ meta_key(EntryKey(i)) \in DOMAIN redis_ttl'
              /\ redis_ttl'[list_key(EntryKey(i))] = RetentionWindow
              /\ redis_ttl'[meta_key(EntryKey(i))] = RetentionWindow]_vars
    /\ [][\A d \in Durations :
            Elapse(d) =>
              \A key \in EntryKeys :
                IF HasTtl(list_key(key)) /\ redis_ttl[list_key(key)] <= d
                THEN key \notin EntryKeys'
                ELSE key \in EntryKeys']_vars

\* the statuses of the services checked in the current turn that are not
\* healthy: each has its ALERT line among the last lines of alerts.log
AlertsOfTurn ==
    LET unhealthy == {k \in 1..Len(monitor.checked) : monitor.checked[k] # "healthy"}
    IN  /\ Len(monitor.log) >= Cardinality(unhealthy)
        /\ \A k \in unhealthy :
             \E n \in 1..Len(monitor.log) :
               /\ n > Len(monitor.log) - Cardinality(unhealthy)
               /\ monitor.log[n] = <<"ALERT: Service ", Services[k], " is ",
                                     monitor.checked[k]>>

\* at the end of every turn of the loop the ALERT lines of the turn are there
AlertsWrittenEachTurn == monitor.pc = "sleep" => AlertsOfTurn

\* C34: with config.json present and the health service not running, the
\* alerts.py process does not end: it goes through its loop, and after each
\* turn alerts.log exists and holds an ALERT line for every service that was
\* not healthy.
C34_MonitorSurvivesMissingHealthService ==
    ( /\ monitor.pc # "not started"
      /\ monitor.config_exists
      /\ ~monitor.health_service_running ) =>
        /\ monitor.pc # "crashed"
        /\ monitor.pc = "sleep" => (monitor.log_exists /\ AlertsOfTurn)

\* C35: after every step that appended to a run's Redis list with no Redis
\* command failing, the message_count of the run's metadata is the number of
\* Messages get_full_output returns for the run.
C35_MessageCountIsLength ==
    [][\A key \in DOMAIN redis_lists' :
         ( /\ lrange_all(redis_lists', key) # lrange_all(redis_lists, key)
           /\ faults' = faults ) =>
           /\ key \in DOMAIN redis_meta'
           /\ json_loads(redis_meta'[key]).message_count
                = Len(get_full_output(redis_lists', key[1], key[2]))]_vars

C35_Witness ==
    \E i \in Slots :
      /\ Metadata(i) # <<>>
      /\ Len(Persisted(i)) >= 4
      /\ Metadata(i)[1].message_count = Len(Persisted(i))
      /\ faults = 1
      /\ \E m \in Elems(Persisted(i)) : m.type = "output"

\* the Messages of the data events a /stream request yielded, replayed and
\* live, in the order it yielded them
DataReceived(v) ==
    LET received == viewers[v].received
        data[k \in 0..Len(received)] ==
            IF k = 0 THEN <<>>
            ELSE IF received[k].part \in {"replay", "live"}
                 THEN Append(data[k - 1], received[k].msg) ELSE data[k - 1]
    IN  data[Len(received)]

\* C36: the data events of a /stream request made with task_id, run_id and
\* since_seq have strictly increasing seq, all greater than since_seq.
C36_NoDuplicateAcrossReplayAndLive ==
    \A v \in 1..Len(viewers) :
      (viewers[v].task_id # None /\ viewers[v].run_id # None) =>
        /\ StrictlyIncreasing(SeqsOf(DataReceived(v)))
        /\ \A m \in Elems(DataReceived(v)) : m.seq > viewers[v].since_seq

\* the output Messages among msgs, in order
Outputs(msgs) ==
    LET kept[k \in 0..Len(msgs)] ==
            IF k = 0 THEN <<>>
            ELSE IF msgs[k].type = "output"
                 THEN Append(kept[k - 1], msgs[k]) ELSE kept[k - 1]
    IN  kept[Len(msgs)]

\* the non-empty lines the thread of run i has read and dispatched, in
\* order: each is dispatched once, by send_build_message or send_exec_message
LinesRead(i) ==
    LET scheduled == worker[i].scheduled
        kept[k \in 0..Len(scheduled)] ==
            IF k = 0 THEN <<>>
            ELSE IF scheduled[k].cb # "send_buffered"
                 THEN Append(kept[k - 1], scheduled[k].text) ELSE kept[k - 1]
    IN  kept[Len(scheduled)]

\* C37: when a run has returned, it has created and published one output
\* Message for each non-empty line read from the container, and stored at
\* most one for each.
C37_OneMessagePerLine ==
    \A i \in Slots :
      (orch[i].pc = "returned" /\ faults = 0) =>
        /\ Len(Outputs(emitted[i])) = Len(LinesRead(i))
        /\ Len(Outputs(Persisted(i))) <= Len(LinesRead(i))

\* C38: the k-th output Message a run creates carries the text for which
\* the thread scheduled its k-th send, and when the run has returned every
\* scheduled send has created its Message.
C38_PayloadIsSchedulingLine ==
    \A i \in Slots :
      LET outs == Outputs(emitted[i])
          scheduled == worker[i].scheduled
      IN  /\ Len(outs) <= Len(scheduled)
          /\ \A k \in 1..Len(outs) : outs[k].content = scheduled[k].text
          /\ orch[i].pc = "returned" => Len(outs) = Len(scheduled)

\* what a call leaves behind outside Redis: the run's seq, the Messages
\* created, the user's queue and what was published
OutsideRedis(B) ==
    [seq |-> B.seq, emitted |-> B.emitted, queue |-> B.queue,
     published |-> B.published]

\* sends a run makes: a line of the container that is stored, one that is
\* skipped, and the two last status Messages
Sends ==
    { [msg_type |-> "output", content |-> <<"hello">>, is_error |-> FALSE],
      [msg_type |-> "output", content |-> <<"Downloading", " pkg">>,
       is_error |-> FALSE],
      [msg_type |-> "status", content |-> <<"Task completed successfully">>,
       is_error |-> FALSE],
      [msg_type |-> "status", content |-> <<"Error: ">> \o WaitFailsText,
       is_error |-> TRUE] }

\* C39: in every state a run can be in, a send whose append to the buffer
\* fails leaves the same seq, Messages, queue and published Messages as the
\* same send with Redis answering: the Message is put on the queue and
\* published with the next seq; the except clause returns the same result
\* whatever Redis answers; in the runs with a failed append every Message
\* created is published and the seq of a run's Messages stay strictly
\* increasing; and the result of a returned run is error or success by what
\* the phases and the container did, not by Redis.
C39_AppendFailureChangesNothingElse ==
    \A i \in Slots :
      LET o == orch[i]
          B == Bundle(i)
      IN  /\ \A outcome \in Outcomes \ {"ok"}, s \in Sends :
                LET failed == send_message(B, o.task_id, o.run_id, s.msg_type,
                                           s.content, s.is_error, TRUE, outcome)
                    stored == send_message(B, o.task_id, o.run_id, s.msg_type,
                                           s.content, s.is_error, TRUE, "ok")
                    message == Message(s.msg_type, s.content, o.task_id, o.run_id,
                                       o.seq + 1, s.is_error)
                IN  /\ should_buffer_message(s.msg_type, s.content) =>
                         failed.faults = faults + 1
                    /\ OutsideRedis(failed) = OutsideRedis(stored)
                    /\ failed.seq = o.seq + 1
                    /\ failed.emitted = Append(emitted[i], message)
                    /\ failed.queue = Append(user_queues[o.user_id], message)
                    /\ failed.published = Append(published[o.user_id], message)
          /\ \A outcome, mark_outcome \in Outcomes :
                LET failed == ExceptClause(B, o.task_id, o.run_id, o.task_name,
                                           WaitFailsText, outcome, mark_outcome)
                    stored == ExceptClause(B, o.task_id, o.run_id, o.task_name,
                                           WaitFailsText, "ok", "ok")
                IN  /\ failed.result = stored.result
                    /\ OutsideRedis(failed.B) = OutsideRedis(stored.B)
          /\ faults > 0 =>
                /\ StrictlyIncreasing(SeqsOf(emitted[i]))
                /\ IsSubsequence(emitted[i], published[o.user_id])
          /\ o.pc = "returned" =>
                LET raised == \/ o.custom_image_name = None
                              \/ o.build = "failed"
                              \/ o.container = None
                              \/ IsErrorString(worker[i].ret)
                              \/ worker[i].ret.code > 0
                IN  o.result.status = IF raised THEN "error" ELSE "success"

C39_Witness ==
    \E i \in Slots :
      /\ faults = 1
      /\ orch[i].pc = "returned"
      /\ orch[i].result.status = "success"
      /\ \E k \in 1..Len(emitted[i]) :
           /\ should_buffer_message(emitted[i][k].type, emitted[i][k].content)
           /\ emitted[i][k].type = "status"
           /\ emitted[i][k] \notin Elems(Persisted(i))
           /\ emitted[i][k] \in Elems(published[orch[i].user_id])
           /\ k < Len(emitted[i])
           /\ emitted[i][k + 1].seq = emitted[i][k].seq + 1

\* the status Messages that end a run (runner.py 290, 299, 310)
TerminalTexts == {"Task completed successfully", "Task failed with exit code ",
                  "Error: "}

IsTerminalStatus(m) ==
    m.type = "status" /\ m.content # <<>> /\ m.content[1] \in TerminalTexts

\* C40: among the Messages of a run every output Message comes before, and
\* has a smaller seq than, every terminal status Message; in the loop's
\* queue of callbacks no send of a run stands behind the resumption of its
\* orchestrating coroutine, and once the coroutine has resumed and left
\* run_task_streaming no send of the run is left in the queue; in every
\* interleaving of the worker thread and the event loop.
C40_NoOutputAfterTerminalStatus ==
    \A i \in Slots :
      /\ \A j, k \in 1..Len(emitted[i]) :
           (IsTerminalStatus(emitted[i][j]) /\ emitted[i][k].type = "output") =>
             /\ k < j
             /\ emitted[i][k].seq < emitted[i][j].seq
      /\ \A p, q \in 1..Len(ready) :
           (ready[p] = [run |-> i, cb |-> "stream_done"] /\ p < q) =>
             ~(ready[q].run = i /\ ready[q].cb \in SendCallbacks)
      /\ orch[i].pc \in {"returned", "raised"} =>
           /\ \A q \in 1..Len(ready) :
                ~(ready[q].run = i /\ ready[q].cb \in SendCallbacks)
           /\ Len(Outputs(emitted[i])) = Len(worker[i].scheduled)

C40_Witness ==
    \E i \in Slots :
      /\ orch[i].pc = "returned"
      /\ orch[i].result.status = "success"
      /\ Len(worker[i].scheduled) >= 2
      /\ Len(Outputs(emitted[i])) >= 2
      /\ IsTerminalStatus(emitted[i][Len(emitted[i])])

====
